---- MODULE Spec2Model ----
(***************************************************************************)
(* x402 payment gating: the requirePayment middleware, the PaymentVerifier *)
(* (policy checks, EIP-3009 signature check, settlement), the header codec *)
(* and requirement builder of the server SDK, and the client SDK's         *)
(* makeX402Request flow.                                                   *)
(*                                                                         *)
(* Text that the code inspects character by character (addresses, amounts) *)
(* is a sequence of one-character strings; other text is a sequence of     *)
(* fragments, so that "" is <<>> and every piece of text has one type.     *)
(***************************************************************************)
EXTENDS Integers, Sequences, FiniteSets, TLC

\* Wall-clock seconds range over 0..MaxTime.
MaxTime == 3

(***************************************************************************)
(* Text helpers                                                            *)
(***************************************************************************)

\* String.prototype.toLowerCase on one character (the hex letters and X).
LowerChar(c) ==
  CASE c = "A" -> "a" [] c = "B" -> "b" [] c = "C" -> "c"
    [] c = "D" -> "d" [] c = "E" -> "e" [] c = "F" -> "f"
    [] c = "X" -> "x" [] OTHER -> c

UpperChar(c) ==
  CASE c = "a" -> "A" [] c = "b" -> "B" [] c = "c" -> "C"
    [] c = "d" -> "D" [] c = "e" -> "E" [] c = "f" -> "F"
    [] OTHER -> c

toLowerCase(s) == [i \in DOMAIN s |-> LowerChar(s[i])]

Digits == {"0", "1", "2", "3", "4", "5", "6", "7", "8", "9"}

DigitVal(c) ==
  CASE c = "0" -> 0 [] c = "1" -> 1 [] c = "2" -> 2 [] c = "3" -> 3
    [] c = "4" -> 4 [] c = "5" -> 5 [] c = "6" -> 6 [] c = "7" -> 7
    [] c = "8" -> 8 [] c = "9" -> 9 [] OTHER -> 0

IsDigits(s) == Len(s) > 0 /\ \A i \in DOMAIN s : s[i] \in Digits

\* The number a string of decimal digits denotes (BigInt(s) for such s).
RECURSIVE NumVal(_)
NumVal(s) ==
  IF Len(s) = 0 THEN 0
  ELSE 10 * NumVal(SubSeq(s, 1, Len(s) - 1)) + DigitVal(s[Len(s)])

\* The leading run of digits of s (what parseInt reads).
RECURSIVE DigitPrefix(_)
DigitPrefix(s) ==
  IF Len(s) = 0 \/ s[1] \notin Digits THEN <<>>
  ELSE <<s[1]>> \o DigitPrefix(Tail(s))

\* A value that is absent (undefined) in a JavaScript object.
Undefined == [undefined |-> TRUE]

\* A string-typed field that is absent; calling a string method on it throws.
UndefStr == <<"undefined">>

(***************************************************************************)
(* Addresses, amounts and the other data of the scenarios                  *)
(***************************************************************************)

MerchantLower == <<"0", "x", "c", "d">>
MerchantChecksum == <<"0", "x", "C", "d">>
MerchantBadCase == <<"0", "x", "c", "D">>
Eve == <<"0", "x", "e", "e">>
AliceLower == <<"0", "x", "a", "b">>
AliceChecksum == <<"0", "x", "A", "b">>
AliceBadCase == <<"0", "x", "a", "B">>
Bob == <<"0", "x", "b", "b">>
USDC == <<"0", "x", "d", "d">>
\* The address ECDSA recovery yields when the digest is not the signed one.
Unrelated == <<"0", "x", "f", "f">>

Amount50000 == <<"5", "0", "0", "0", "0">>
Amount50001 == <<"5", "0", "0", "0", "1">>
Amount050000 == <<"0", "5", "0", "0", "0", "0">>
Amount50000dot0 == <<"5", "0", "0", "0", "0", ".", "0">>

BaseSepolia == <<"base-sepolia">>
BaseMainnet == <<"base">>

UrlGenerateText == <<"/api/generate-text">>
UrlJobsRun == <<"/api/jobs/run">>
\* The routes gated by requirePayment.
Urls == {UrlGenerateText, UrlJobsRun}
\* POST /api/jobs/create, which is not gated.
UrlJobsCreate == <<"/api/jobs/create">>

\* Ids randomBytes(16) can yield for a new job.
JobIds == {<<"job1">>, <<"job2">>}

Prompt == <<"hello">>
\* A value that is not a string is written <<text, type>>.
NumberPrompt == <<"42", "number">>
\* typeof v
TypeOf(v) == IF Len(v) = 2 THEN v[2] ELSE "string"
\* Request bodies: req.body.prompt and req.body.jobId, each possibly absent.
Body(prompt, jobId) == [prompt |-> prompt, jobId |-> jobId]
DefaultBody == Body(Prompt, UndefStr)

Nonce1 == <<"0xn1">>
Nonce2 == <<"0xn2">>

\* Transaction ids a confirmed receipt can carry.
TxIds == {<<"0xtx1">>, <<"0xtx2">>}

MerchantKey == <<"0xkey">>

\* Chain id of Base Sepolia, the route's configured chain.
BaseSepoliaChainId == 84532

\* Default of maxTimeoutSeconds in createPaymentRequirement.
DefaultMaxTimeoutSeconds == 3600

(***************************************************************************)
(* Route options (PaymentMiddlewareOptions)                                *)
(***************************************************************************)

(***************************************************************************)
(* The amounts the call sites of requirePayment configure                  *)
(***************************************************************************)

\* The position of the decimal point in s, 0 if there is none.
PointIndex(s) ==
  IF \E i \in DOMAIN s : s[i] = "." THEN CHOOSE i \in DOMAIN s : s[i] = "." ELSE 0

IntegerDigits(s) == IF PointIndex(s) = 0 THEN s ELSE SubSeq(s, 1, PointIndex(s) - 1)
FractionDigits(s) == IF PointIndex(s) = 0 THEN <<>> ELSE SubSeq(s, PointIndex(s) + 1, Len(s))

\* s is digits, optionally followed by a point and digits.
IsDecimal(s) ==
  /\ IsDigits(IntegerDigits(s))
  /\ \A i \in DOMAIN FractionDigits(s) : FractionDigits(s)[i] \in Digits

\* Number.prototype.toString for a natural number.
RECURSIVE DecimalString(_)
DecimalString(n) ==
  IF n < 10 THEN <<CHOOSE c \in Digits : DigitVal(c) = n>>
  ELSE DecimalString(n \div 10) \o <<CHOOSE c \in Digits : DigitVal(c) = n % 10>>

\* The first six fraction digits of s, padded with zeros.
MicroDigits(s) ==
  [i \in 1..6 |-> IF i <= Len(FractionDigits(s)) THEN FractionDigits(s)[i] ELSE "0"]

\* The fraction digits of s after the sixth, without trailing zeros.
RECURSIVE TrimZeros(_)
TrimZeros(d) ==
  IF Len(d) > 0 /\ d[Len(d)] = "0" THEN TrimZeros(SubSeq(d, 1, Len(d) - 1)) ELSE d

SubMicroDigits(s) ==
  TrimZeros(SubSeq(FractionDigits(s), 7, Len(FractionDigits(s))))

NaNString == <<"N", "a", "N">>

\* Math.floor(parseFloat(dollars) * 1_000_000).toString(), for a decimal
\* whose product is exact.
toUSDCAtomicUnits(dollars) ==
  IF ~IsDecimal(dollars) THEN NaNString
  ELSE DecimalString(NumVal(IntegerDigits(dollars) \o MicroDigits(dollars)))

\* (parseFloat(config.priceUsdc) * 1_000_000).toString(), likewise.
priceInAtomicUnits(priceUsdc) ==
  IF ~IsDecimal(priceUsdc) THEN NaNString
  ELSE IF SubMicroDigits(priceUsdc) = <<>>
    THEN DecimalString(NumVal(IntegerDigits(priceUsdc) \o MicroDigits(priceUsdc)))
  ELSE DecimalString(NumVal(IntegerDigits(priceUsdc) \o MicroDigits(priceUsdc)))
         \o <<".">> \o SubMicroDigits(priceUsdc)

\* process.env.PRICE_USDC || '0.05'
PriceUsdc == <<"0", ".", "0", "5">>

\* The amount option at each requirePayment call site: the TEE service, the
\* job server, and the two routes of the gateway example.
RouteAmounts ==
  {toUSDCAtomicUnits(PriceUsdc),
   priceInAtomicUnits(PriceUsdc),
   PriceUsdc,
   <<"0", ".", "1", "0">>}

\* merchantPrivateKey: absent, the empty string, or a key.
PrivateKeys == {UndefStr, <<>>, MerchantKey}

RouteOptions ==
  [amount : RouteAmounts,
   asset : {USDC},
   network : {BaseSepolia},
   payTo : {MerchantLower, MerchantChecksum},
   description : {UndefStr},
   chainId : {BaseSepoliaChainId},
   merchantPrivateKey : PrivateKeys,
   enableRealSettlement : BOOLEAN]

\* JavaScript truthiness of a string-typed option.
TruthyStr(s) == s # UndefStr /\ s # <<>>

(***************************************************************************)
(* createPaymentRequirement                                                *)
(***************************************************************************)

\* `${req.protocol}://${req.get('host')}${req.originalUrl}`
ResourceOf(url) == <<"http", "://", "localhost:3001">> \o url

\* Mutant: payTo is normalised to lower case in the requirement.
createPaymentRequirementLowerPayTo(url, options) ==
  [x402Version |-> 1,
   accepts |-> <<
     [scheme |-> <<"exact">>,
      network |-> options.network,
      asset |-> options.asset,
      payTo |-> toLowerCase(options.payTo),
      maxAmountRequired |-> options.amount,
      resource |-> ResourceOf(url),
      description |-> IF TruthyStr(options.description)
                        THEN options.description
                        ELSE <<"Payment required for API access">>,
      maxTimeoutSeconds |-> DefaultMaxTimeoutSeconds] >>]

createPaymentRequirement(url, options) ==
  [x402Version |-> 1,
   accepts |-> <<
     [scheme |-> <<"exact">>,
      network |-> options.network,
      asset |-> options.asset,
      payTo |-> options.payTo,
      maxAmountRequired |-> options.amount,
      resource |-> ResourceOf(url),
      description |-> IF TruthyStr(options.description)
                        THEN options.description
                        ELSE <<"Payment required for API access">>,
      maxTimeoutSeconds |-> DefaultMaxTimeoutSeconds] >>]

(***************************************************************************)
(* EIP-712 typed data and ECDSA, as ethers.verifyTypedData uses them       *)
(***************************************************************************)

\* EIP-55 casing of a lower-case address (abstracted: the first hex digit
\* after the prefix is the one the checksum capitalises).
ChecksumOf(lower) == [i \in DOMAIN lower |-> IF i = 3 THEN UpperChar(lower[i]) ELSE lower[i]]

IsLowerCase(a) == a = toLowerCase(a)
IsUpperCase(a) == \A i \in DOMAIN a : i > 2 => a[i] = UpperChar(a[i])

\* ethers.getAddress accepts an all-lower, all-upper or correctly
\* checksummed address and throws on any other casing or a non-address.
IsAddress(a) ==
  /\ a # UndefStr
  /\ Len(a) = 4
  /\ \/ IsLowerCase(a)
     \/ IsUpperCase(a)
     \/ a = ChecksumOf(toLowerCase(a))

\* The typed-data encoder throws unless every field has its declared type.
TypedDataOk(domainContract, message) ==
  /\ IsAddress(domainContract)
  /\ IsAddress(message.from)
  /\ IsAddress(message.to)
  /\ IsDigits(message.value)

\* The EIP-712 digest: addresses are hashed as 20 bytes (case is lost),
\* value as a uint256 (leading zeros are lost).
TypedDataDigest(chainId, contract, message) ==
  [name |-> "USDC",
   version |-> "2",
   chainId |-> chainId,
   verifyingContract |-> toLowerCase(contract),
   from |-> toLowerCase(message.from),
   to |-> toLowerCase(message.to),
   value |-> NumVal(message.value),
   validAfter |-> message.validAfter,
   validBefore |-> message.validBefore,
   nonce |-> message.nonce]

\* (v, r, s) produced by account `signer` over `digest`.
SignatureOf(signer, digest) ==
  [wellFormed |-> TRUE, signer |-> toLowerCase(signer), digest |-> digest]

\* ecrecover: the signer for the signed digest, an unrelated address otherwise.
RecoverAddress(digest, vrs) ==
  IF vrs.digest = digest THEN ChecksumOf(vrs.signer) ELSE ChecksumOf(Unrelated)

MessageOf(payload) ==
  [from |-> payload.from,
   to |-> payload.to,
   value |-> payload.value,
   validAfter |-> payload.validAfter,
   validBefore |-> payload.validBefore,
   nonce |-> payload.nonce]

(***************************************************************************)
(* PaymentVerifier.verifyPayment: the five checks                          *)
(***************************************************************************)

Invalid(msg, a, b) == [valid |-> FALSE, reason |-> [msg |-> msg, a |-> a, b |-> b]]

\* Mutant: the catch block returns no reason.
VerificationErrorSilent(message) == Invalid("", <<>>, <<>>)

\* The catch block: { valid: false, reason: `Verification error: ${error.message}` }
VerificationError(message) == Invalid("Verification error: ", <<message>>, <<>>)

\* payment.network !== options.expectedNetwork
NetworkMismatch(payment, expected) == payment.network # expected.expectedNetwork

\* Mutant: the amounts are compared as numbers (parseInt on both sides).
AmountMismatchNumeric(payload, expected) ==
  NumVal(DigitPrefix(payload.value)) # NumVal(DigitPrefix(expected.expectedAmount))

\* payload.value !== options.expectedAmount
AmountMismatch(payload, expected) == payload.value # expected.expectedAmount

\* Mutant: the recipient is compared with itself, so the check never fails.
RecipientMismatchSelf(payload, expected) ==
  toLowerCase(payload.to) # toLowerCase(payload.to)

\* payload.to.toLowerCase() !== options.expectedRecipient.toLowerCase()
RecipientMismatch(payload, expected) ==
  toLowerCase(payload.to) # toLowerCase(expected.expectedRecipient)

\* now < payload.validAfter
NotYetValid(payload, now) == now < payload.validAfter

\* Mutant: the upper boundary is exclusive.
ExpiredAtBoundary(payload, now) == now >= payload.validBefore

\* now > payload.validBefore
Expired(payload, now) == now > payload.validBefore

\* Mutant: the recovered address is compared with itself.
SignerMismatchSelf(recovered, payload) ==
  toLowerCase(recovered) # toLowerCase(recovered)

\* recoveredAddress.toLowerCase() !== payload.from.toLowerCase()
SignerMismatch(recovered, payload) ==
  toLowerCase(recovered) # toLowerCase(payload.from)

\* Lines 167-204: the EIP-3009 signature check. [valid |-> TRUE] stands for
\* "all checks passed, now settle".
CheckSignature(payment, expected, config, now) ==
  LET payload == payment.payload IN
  IF ~TypedDataOk(config.usdcAddress, MessageOf(payload))
    THEN VerificationError("invalid typed data value")
  ELSE IF ~payload.vrs.wellFormed
    THEN VerificationError("invalid signature")
  ELSE
    LET recovered == RecoverAddress(
          TypedDataDigest(config.chainId, config.usdcAddress, MessageOf(payload)),
          payload.vrs)
    IN IF SignerMismatch(recovered, payload)
         THEN Invalid("Signature verification failed", recovered, payload.from)
         ELSE [valid |-> TRUE]

\* Lines 152-165: the validity window, then the signature.
CheckTimestamps(payment, expected, config, now) ==
  IF NotYetValid(payment.payload, now)
    THEN Invalid("Payment not yet valid", <<>>, <<>>)
  ELSE IF Expired(payment.payload, now)
    THEN Invalid("Payment expired", <<>>, <<>>)
  ELSE CheckSignature(payment, expected, config, now)

\* Lines 144-150: the recipient, then the rest. A payload without `to`
\* makes payload.to.toLowerCase() throw, which the catch block reports.
CheckRecipient(payment, expected, config, now) ==
  IF payment.payload.to = UndefStr
    THEN VerificationError("Cannot read properties of undefined (reading 'toLowerCase')")
  ELSE IF RecipientMismatch(payment.payload, expected)
    THEN Invalid("Recipient mismatch", expected.expectedRecipient, payment.payload.to)
  ELSE CheckTimestamps(payment, expected, config, now)

\* Lines 136-142: the amount, then the rest.
CheckAmount(payment, expected, config, now) ==
  IF AmountMismatch(payment.payload, expected)
    THEN Invalid("Amount mismatch", expected.expectedAmount, payment.payload.value)
  ELSE CheckRecipient(payment, expected, config, now)

\* Lines 128-134: the network, then the rest.
CheckNetwork(payment, expected, config, now) ==
  IF NetworkMismatch(payment, expected)
    THEN Invalid("Network mismatch", expected.expectedNetwork, payment.network)
  ELSE CheckAmount(payment, expected, config, now)

\* Mutant: the amount is checked before the network.
VerifyChecksAmountFirst(payment, expected, config, now) ==
  IF AmountMismatch(payment.payload, expected)
    THEN Invalid("Amount mismatch", expected.expectedAmount, payment.payload.value)
  ELSE IF NetworkMismatch(payment, expected)
    THEN Invalid("Network mismatch", expected.expectedNetwork, payment.network)
  ELSE CheckRecipient(payment, expected, config, now)

\* Lines 126-204 of verifyPayment: the checks in the order the code runs them.
VerifyChecks(payment, expected, config, now) ==
  CheckNetwork(payment, expected, config, now)

\* Mutant: the simulated settlement returns nothing.
generateSimulatedTxHashNone(payload) == Undefined

\* keccak256(toUtf8Bytes(JSON.stringify(payload))): a function of the payload alone.
generateSimulatedTxHash(payload) == [keccak256 |-> payload]

\* Mutant: the flag alone selects real settlement.
RealSettlementSelectedByFlag(config) == config.enableRealSettlement

\* this.config.enableRealSettlement && this.config.merchantPrivateKey
RealSettlementSelected(config) ==
  config.enableRealSettlement /\ TruthyStr(config.merchantPrivateKey)

\* new PaymentVerifier({...}) in requirePayment
VerifierConfig(options) ==
  [chainId |-> options.chainId,
   usdcAddress |-> options.asset,
   merchantPrivateKey |-> options.merchantPrivateKey,
   enableRealSettlement |-> options.enableRealSettlement]

\* The VerificationOptions requirePayment passes to verifyPayment.
VerificationOptions(options) ==
  [expectedAmount |-> options.amount,
   expectedRecipient |-> options.payTo,
   expectedNetwork |-> options.network]

(***************************************************************************)
(* The X-PAYMENT header and parsePaymentHeader                             *)
(***************************************************************************)

\* A header is absent, or raw text that is not base64 of JSON, or the
\* base64 encoding of a JSON document.
NoHeader == [kind |-> "absent"]
RawHeader(text) == [kind |-> "raw", text |-> text]
JsonHeader(doc) == [kind |-> "base64json", doc |-> doc]
\* The same with characters outside the base64 alphabet in between, which
\* Buffer.from(header, 'base64') skips.
LooseHeader(doc) == [kind |-> "loosebase64json", doc |-> doc]
JsonNull == [null |-> TRUE]
\* A JSON document that is a number.
JsonNumber == [number |-> 5]

\* Mutant: the header is the base64 of String(payload), not of its JSON text.
encodePaymentHeaderNoJson(payload) == RawHeader(<<"[object Object]">>)

\* Buffer.from(JSON.stringify(payload), 'utf-8').toString('base64')
encodePaymentHeader(payload) == JsonHeader(payload)

\* Mutant: only an absent header counts as missing (paymentHeader === undefined).
HeaderUndefinedOnly(header) == header.kind = "absent"

\* !paymentHeader: undefined and "" are both falsy.
HeaderFalsy(header) ==
  \/ header.kind = "absent"
  \/ header.kind = "raw" /\ header.text = <<>>

Null == [null |-> TRUE]

EnvelopeFields == {"x402Version", "scheme", "network", "payload"}

\* Mutant: x402Version is not looked at.
MissingEnvelopeFieldButVersion(doc) ==
  \/ (EnvelopeFields \ {"x402Version"}) \ DOMAIN doc # {}
  \/ doc.scheme = <<>> \/ doc.scheme = UndefStr
  \/ doc.network = <<>> \/ doc.network = UndefStr
  \/ doc.payload = Undefined \/ doc.payload = JsonNull

\* !payload.x402Version || !payload.scheme || !payload.network || !payload.payload
\* (a property that is absent reads as undefined, which is falsy)
MissingEnvelopeField(doc) ==
  \/ EnvelopeFields \ DOMAIN doc # {}
  \/ doc.x402Version = 0
  \/ doc.scheme = <<>> \/ doc.scheme = UndefStr
  \/ doc.network = <<>> \/ doc.network = UndefStr
  \/ doc.payload = Undefined \/ doc.payload = JsonNull

parsePaymentHeader(header) ==
  IF header.kind = "raw" THEN Null            \* JSON.parse throws
  ELSE IF header.doc = JsonNull THEN Null     \* property read on null throws
  ELSE IF MissingEnvelopeField(header.doc) THEN Null
  ELSE header.doc

(***************************************************************************)
(* signPaymentAuthorization (client SDK), with the nonce and the validity  *)
(* window it draws made parameters                                         *)
(***************************************************************************)

\* Mutant: from and to are signed and sent in the spelling supplied.
signPaymentAuthorizationAsSupplied(signer, signerChainId, opts, nonce, validAfter, validBefore) ==
  LET message == [from |-> opts.from,
                  to |-> opts.to,
                  value |-> opts.value,
                  validAfter |-> validAfter,
                  validBefore |-> validBefore,
                  nonce |-> nonce]
      digest == TypedDataDigest(signerChainId, toLowerCase(opts.asset), message)
  IN [x402Version |-> 1,
      scheme |-> <<"exact">>,
      network |-> opts.network,
      payload |-> [from |-> message.from,
                   to |-> message.to,
                   value |-> opts.value,
                   validAfter |-> validAfter,
                   validBefore |-> validBefore,
                   nonce |-> nonce,
                   vrs |-> SignatureOf(signer, digest)]]

signPaymentAuthorization(signer, signerChainId, opts, nonce, validAfter, validBefore) ==
  LET message == [from |-> toLowerCase(opts.from),
                  to |-> toLowerCase(opts.to),
                  value |-> opts.value,
                  validAfter |-> validAfter,
                  validBefore |-> validBefore,
                  nonce |-> nonce]
      digest == TypedDataDigest(signerChainId, toLowerCase(opts.asset), message)
  IN [x402Version |-> 1,
      scheme |-> <<"exact">>,
      network |-> opts.network,
      payload |-> [from |-> message.from,
                   to |-> message.to,
                   value |-> opts.value,
                   validAfter |-> validAfter,
                   validBefore |-> validBefore,
                   nonce |-> nonce,
                   vrs |-> SignatureOf(signer, digest)]]

\* validAfter = now - 60 and validBefore = now + 3600 in signPaymentAuthorization.
ValidAfterSkew == 60
ValidBeforeTtl == 3600

\* options.validAfter || now - 60: a validAfter that is not supplied, or is
\* supplied as 0, is falsy.
ValidAfterOf(opts, now) ==
  IF "validAfter" \in DOMAIN opts /\ opts.validAfter # 0
    THEN opts.validAfter
    ELSE now - ValidAfterSkew

\* options.validBefore || now + 3600
ValidBeforeOf(opts, now) ==
  IF "validBefore" \in DOMAIN opts /\ opts.validBefore # 0
    THEN opts.validBefore
    ELSE now + ValidBeforeTtl

\* signPaymentAuthorization called when the clock reads now and
\* ethers.randomBytes(32) returns nonce.
signPaymentAuthorizationAt(signer, signerChainId, opts, nonce, now) ==
  signPaymentAuthorization(signer, signerChainId, opts, nonce,
                           ValidAfterOf(opts, now), ValidBeforeOf(opts, now))

(***************************************************************************)
(* The requests the environment can send                                   *)
(***************************************************************************)

Times == 0..MaxTime

Accounts == {AliceLower, Bob}

\* The spellings in which a caller supplies from and to to the signer.
FromSupplied == Accounts \cup {AliceChecksum, AliceBadCase}
ToSupplied == {MerchantLower, MerchantChecksum, MerchantBadCase, Eve}

\* Authorizations as a client signs them, for good and bad terms.
SignedPayments ==
  { signPaymentAuthorization(signer, BaseSepoliaChainId,
      [from |-> from, to |-> to, value |-> value,
       network |-> BaseSepolia, asset |-> USDC],
      Nonce1, 1, 2) :
      signer \in Accounts, from \in FromSupplied,
      to \in ToSupplied,
      value \in {Amount50000, Amount50001, Amount050000} }

\* The chain ids a client's provider may report: the route's and Ethereum's.
SignerChainIds == {BaseSepoliaChainId, 1}

\* Alice's authorization for the right terms, per chain of her provider.
SignedPerChain ==
  { signPaymentAuthorization(AliceLower, chainId,
      [from |-> from, to |-> MerchantChecksum, value |-> Amount50000,
       network |-> BaseSepolia, asset |-> USDC],
      Nonce1, 1, 2) :
      chainId \in SignerChainIds, from \in {AliceLower, AliceBadCase} }

WithPayload(p, field, v) == [p EXCEPT !.payload = [p.payload EXCEPT ![field] = v]]

\* An authorization with at most one field changed after signing.
Tampered(p) ==
  {p}
  \cup {[p EXCEPT !.network = BaseMainnet]}
  \cup {WithPayload(p, "from", a) :
          a \in {AliceLower, AliceChecksum, AliceBadCase, Bob}}
  \cup {WithPayload(p, "to", a) :
          a \in {MerchantLower, MerchantChecksum, MerchantBadCase, Eve, UndefStr}}
  \cup {WithPayload(p, "value", v) :
          v \in {Amount50000, Amount50001, Amount050000, Amount50000dot0}}
  \cup {WithPayload(p, "validAfter", 2), WithPayload(p, "validBefore", 3),
        WithPayload(p, "nonce", Nonce2)}
  \cup {WithPayload(p, "vrs", [p.payload.vrs EXCEPT !.wellFormed = FALSE])}

\* The options a caller passes to signPaymentAuthorization for the right
\* terms: without a validity window, or with validAfter, validBefore or both.
PaymentAuthOptions ==
  LET terms == [from |-> AliceLower, to |-> MerchantLower, value |-> Amount50000,
                network |-> BaseSepolia, asset |-> USDC]
  IN {terms}
     \cup {terms @@ [validAfter |-> a] : a \in {0, 1}}
     \cup {terms @@ [validBefore |-> b] : b \in {0, 2}}
     \cup {terms @@ [validAfter |-> a, validBefore |-> b] : a \in {0, 1}, b \in {0, 2}}

\* Alice's authorizations for those options, signed at any clock value.
SignedWithWindow ==
  { signPaymentAuthorizationAt(AliceLower, BaseSepoliaChainId, o, Nonce1, now) :
      o \in PaymentAuthOptions, now \in Times }

\* The authorizations sent; x402Version is any integer the sender likes.
Payments ==
  UNION {Tampered(p) : p \in SignedPayments}
  \cup SignedPerChain
  \cup SignedWithWindow
  \cup {[p EXCEPT !.x402Version = 2] :
          p \in {q \in SignedPayments : q.payload.value = Amount50000}}

SamplePayment == CHOOSE p \in SignedPayments :
  /\ p.payload.from = AliceLower /\ p.payload.to = MerchantLower
  /\ p.payload.value = Amount50000 /\ p.payload.vrs.signer = AliceLower

\* The JSON object doc without its property f.
Without(doc, f) == [g \in DOMAIN doc \ {f} |-> doc[g]]

\* Header values the codec rejects.
MalformedHeaders ==
  {RawHeader(<<"not-base64-json">>),
   JsonHeader(JsonNull),
   JsonHeader(JsonNumber),
   JsonHeader(Without(SamplePayment, "x402Version")),
   JsonHeader(Without(SamplePayment, "scheme")),
   JsonHeader(Without(SamplePayment, "network")),
   JsonHeader(Without(SamplePayment, "payload")),
   JsonHeader([SamplePayment EXCEPT !.x402Version = 0]),
   JsonHeader([SamplePayment EXCEPT !.network = <<>>]),
   JsonHeader([SamplePayment EXCEPT !.payload = Undefined])}

Headers ==
  {NoHeader, RawHeader(<<>>)}
  \cup MalformedHeaders
  \cup {encodePaymentHeader(p) : p \in Payments}
  \cup {LooseHeader(SamplePayment)}

(***************************************************************************)
(* State                                                                   *)
(***************************************************************************)

VARIABLES
  options,   \* the PaymentMiddlewareOptions requirePayment was called with
  req,       \* req[r]: the request in slot r and how far its handler got
  jobs,      \* the rows of the jobs table
  client     \* the EigenX402Client call in progress

vars == <<options, req, jobs, client>>

NoResponse == [sent |-> FALSE]
NotSet == [set |-> FALSE]

\* A slot no request has used yet.
Idle ==
  [pc |-> "idle",
   sender |-> "other",         \* "client" for a fetch of the client SDK
   url |-> UrlGenerateText,
   header |-> NoHeader,
   body |-> DefaultBody,
   now |-> 0,
   payment |-> Null,           \* what parsePaymentHeader returned
   verification |-> Undefined, \* what verifyPayment returned
   attached |-> NotSet,        \* payment, paymentVerified, txHash set on req
   res |-> NoResponse,         \* res.status(..).json(..)
   nextCalled |-> FALSE,
   receipt |-> Null,           \* the receipt tx.wait() resolved with
   job |-> Null,               \* the row the handler selected
   log |-> <<>>]               \* the calls made for this request, in order

(***************************************************************************)
(* requirePayment: the responses                                           *)
(***************************************************************************)

Json(status, body) == [sent |-> TRUE, status |-> status, body |-> body]

\* Mutant: the challenge wraps the envelope in a paymentRequired property.
send402ResponseWrapped(url, opts) ==
  Json(402, [paymentRequired |-> createPaymentRequirement(url, opts)])

\* send402Response
send402Response(url, opts) == Json(402, createPaymentRequirement(url, opts))

\* Mutant: a malformed header is answered like an invalid payment.
MalformedResponseAs402 == Json(402, [error |-> "Invalid X-PAYMENT header format"])

\* res.status(400).json({ error: 'Invalid X-PAYMENT header format' })
MalformedResponse == Json(400, [error |-> "Invalid X-PAYMENT header format"])

\* Mutant: the rejection does not re-include the requirement.
RejectionResponseNoRequirement(url, opts, verification) ==
  Json(402, [error |-> "Payment verification failed",
             reason |-> verification.reason])

\* Mutant: the middleware counts the rejections it has sent and reports the
\* count in the next one.
RejectionResponseCounting(url, opts, verification) ==
  Json(402, [error |-> "Payment verification failed",
             reason |-> verification.reason,
             x402 |-> createPaymentRequirement(url, opts),
             rejections |-> Cardinality({s \in DOMAIN req :
                              /\ req[s].res.sent
                              /\ req[s].res.status = 402
                              /\ "reason" \in DOMAIN req[s].res.body})])

\* res.status(402).json({ error, reason, x402 })
RejectionResponse(url, opts, verification) ==
  Json(402, [error |-> "Payment verification failed",
             reason |-> verification.reason,
             x402 |-> createPaymentRequirement(url, opts)])

\* The catch block of the middleware.
ErrorResponse(message) ==
  Json(500, [error |-> "Payment processing error", message |-> message])

\* Mutant: the settlement id is bound to the URL the request asked for.
AfterVerificationBoundToUrl(q, verification, opts) ==
  IF ~verification.valid
    THEN [q EXCEPT !.pc = "done",
                   !.verification = verification,
                   !.res = RejectionResponse(q.url, opts, verification),
                   !.log = q.log \o <<"createPaymentRequirement", "respond">>]
    ELSE LET bound == [verification EXCEPT
                         !.txHash = [id |-> verification.txHash, url |-> q.url]]
         IN [q EXCEPT !.pc = "downstream",
                      !.verification = bound,
                      !.attached = [set |-> TRUE,
                                    payment |-> q.payment,
                                    paymentVerified |-> TRUE,
                                    txHash |-> bound.txHash],
                      !.nextCalled = TRUE,
                      !.log = q.log \o <<"next">>]

\* Mutant: the decoded authorization is set on the request also when it is
\* rejected.
AfterVerificationAnnotatingRejections(q, verification, opts) ==
  IF ~verification.valid
    THEN [q EXCEPT !.pc = "done",
                   !.verification = verification,
                   !.attached = [set |-> TRUE,
                                 payment |-> q.payment,
                                 paymentVerified |-> FALSE,
                                 txHash |-> Undefined],
                   !.res = RejectionResponse(q.url, opts, verification),
                   !.log = q.log \o <<"createPaymentRequirement", "respond">>]
    ELSE [q EXCEPT !.pc = "downstream",
                   !.verification = verification,
                   !.attached = [set |-> TRUE,
                                 payment |-> q.payment,
                                 paymentVerified |-> TRUE,
                                 txHash |-> verification.txHash],
                   !.nextCalled = TRUE,
                   !.log = q.log \o <<"next">>]

\* Mutant: the server remembers the (from, nonce) pairs it granted and
\* rejects an authorization it sees again.
AfterVerificationOncePerNonce(q, verification, opts) ==
  LET seen == \E s \in DOMAIN req :
                /\ req[s].nextCalled
                /\ req[s].payment.payload.from = q.payment.payload.from
                /\ req[s].payment.payload.nonce = q.payment.payload.nonce
      result == IF verification.valid /\ seen
                  THEN Invalid("Nonce already used", <<>>, <<>>)
                  ELSE verification
  IN IF ~result.valid
       THEN [q EXCEPT !.pc = "done",
                      !.verification = result,
                      !.res = RejectionResponse(q.url, opts, result),
                      !.log = q.log \o <<"createPaymentRequirement", "respond">>]
       ELSE [q EXCEPT !.pc = "downstream",
                      !.verification = result,
                      !.attached = [set |-> TRUE,
                                    payment |-> q.payment,
                                    paymentVerified |-> TRUE,
                                    txHash |-> result.txHash],
                      !.nextCalled = TRUE,
                      !.log = q.log \o <<"next">>]

\* Lines 75-89: what the middleware does with verifyPayment's result.
AfterVerification(q, verification, opts) ==
  IF ~verification.valid
    THEN [q EXCEPT !.pc = "done",
                   !.verification = verification,
                   !.res = RejectionResponse(q.url, opts, verification),
                   !.log = q.log \o <<"createPaymentRequirement", "respond">>]
    ELSE [q EXCEPT !.pc = "downstream",
                   !.verification = verification,
                   !.attached = [set |-> TRUE,
                                 payment |-> q.payment,
                                 paymentVerified |-> TRUE,
                                 txHash |-> verification.txHash],
                   !.nextCalled = TRUE,
                   !.log = q.log \o <<"next">>]

\* Lines 206-229 of verifyPayment when settlePayment throws: the catch block
\* turns the exception into an invalid result.
SettlementThrew(message) == VerificationError(message)

\* Mutant: a /api/jobs/run request without jobId is refused before the
\* payment is looked at.
HandleCheckingJobFirst(q0, url, header, now, opts) ==
  LET q == [Idle EXCEPT !.sender = q0.sender, !.body = q0.body,
                        !.url = url, !.header = header, !.now = now] IN
  IF url = UrlJobsRun /\ ~TruthyStr(q0.body.jobId)
    THEN [q EXCEPT !.pc = "done",
                   !.res = Json(400, [error |-> "jobId required"]),
                   !.log = <<"respond">>]
  ELSE
  IF HeaderFalsy(header)
    THEN [q EXCEPT !.pc = "done",
                   !.res = send402Response(url, opts),
                   !.log = <<"createPaymentRequirement", "respond">>]
  ELSE
    LET payment == parsePaymentHeader(header) IN
    IF payment = Null
      THEN [q EXCEPT !.pc = "done",
                     !.res = MalformedResponse,
                     !.log = <<"parsePaymentHeader", "respond">>]
    ELSE
      LET config == VerifierConfig(opts)
          checks == VerifyChecks(payment, VerificationOptions(opts), config, now)
          qv == [q EXCEPT !.payment = payment,
                          !.log = <<"parsePaymentHeader", "verifyPayment">>]
      IN IF ~checks.valid
           THEN AfterVerification(qv, checks, opts)
         ELSE IF RealSettlementSelected(config)
           THEN [qv EXCEPT !.pc = "submitting",
                           !.log = qv.log \o <<"checksPassed", "settlePayment">>]
         ELSE AfterVerification(
                [qv EXCEPT !.log = qv.log \o <<"checksPassed", "generateSimulatedTxHash">>],
                [valid |-> TRUE, txHash |-> generateSimulatedTxHash(payment.payload)],
                opts)

\* The handler from the arrival of a request up to its first wait on the
\* chain (real settlement) or to its end.
Handle(q0, url, header, now, opts) ==
  LET q == [Idle EXCEPT !.sender = q0.sender, !.body = q0.body,
                        !.url = url, !.header = header, !.now = now] IN
  IF HeaderFalsy(header)
    THEN [q EXCEPT !.pc = "done",
                   !.res = send402Response(url, opts),
                   !.log = <<"createPaymentRequirement", "respond">>]
  ELSE
    LET payment == parsePaymentHeader(header) IN
    IF payment = Null
      THEN [q EXCEPT !.pc = "done",
                     !.res = MalformedResponse,
                     !.log = <<"parsePaymentHeader", "respond">>]
    ELSE
      LET config == VerifierConfig(opts)
          checks == VerifyChecks(payment, VerificationOptions(opts), config, now)
          qv == [q EXCEPT !.payment = payment,
                          !.log = <<"parsePaymentHeader", "verifyPayment">>]
      IN IF ~checks.valid
           THEN AfterVerification(qv, checks, opts)
         ELSE IF RealSettlementSelected(config)
           THEN [qv EXCEPT !.pc = "submitting",
                           !.log = qv.log \o <<"checksPassed", "settlePayment">>]
         ELSE AfterVerification(
                [qv EXCEPT !.log = qv.log \o <<"checksPassed", "generateSimulatedTxHash">>],
                [valid |-> TRUE, txHash |-> generateSimulatedTxHash(payment.payload)],
                opts)

(***************************************************************************)
(* The handlers behind the middleware, and POST /api/jobs/create           *)
(***************************************************************************)

Proof == [containerImageDigest |-> <<"sha256:local-dev">>,
          outputHash |-> <<"sha256:output">>]
Output == <<"output">>

\* req.txHash || 'simulated-tx'
TxHashOrDefault(attached) ==
  IF attached.txHash = Undefined THEN [literal |-> <<"simulated-tx">>]
  ELSE attached.txHash

\* !prompt || typeof prompt !== 'string'
InvalidPrompt(body) == ~TruthyStr(body.prompt) \/ TypeOf(body.prompt) # "string"

\* The /api/generate-text handler (it runs after next()).
GenerateText(q, computeOk) ==
  IF InvalidPrompt(q.body)
    THEN [q EXCEPT !.pc = "done", !.res = Json(400, [error |-> "Invalid prompt"])]
  ELSE IF ~computeOk
    THEN [q EXCEPT !.pc = "done", !.res = Json(500, [error |-> "EigenAI request failed"])]
  ELSE [q EXCEPT !.pc = "done",
                 !.res = Json(200, [jobId |-> <<"tee-">>,
                                    output |-> Output,
                                    proof |-> Proof,
                                    txHash |-> TxHashOrDefault(q.attached),
                                    status |-> "completed"])]

JobWithId(id) == {j \in jobs : j.id = id}

\* The /api/jobs/run handler (it runs after next()) up to its fetch of the
\* compute app: the answers it gives without computing, NoResponse when it
\* goes on to compute.
RunJobRefusal(q) ==
  IF ~TruthyStr(q.body.jobId)
    THEN Json(400, [error |-> "jobId required"])
  ELSE IF JobWithId(q.body.jobId) = {}
    THEN Json(404, [error |-> "Job not found"])
  ELSE IF \E j \in JobWithId(q.body.jobId) : j.status = "completed"
    THEN Json(400, [error |-> "Job already completed"])
  ELSE NoResponse

\* Mutant: a failure of the compute app is answered 502.
RunJobResponseBadGateway(q, computeOk) ==
  IF ~computeOk
    THEN Json(502, [error |-> "Failed to run job", message |-> "Compute app error"])
  ELSE Json(200, [jobId |-> q.body.jobId,
                  output |-> Output,
                  proof |-> Proof,
                  txHash |-> TxHashOrDefault(q.attached),
                  status |-> "completed"])

\* The response of the /api/jobs/run handler once the compute app answered.
RunJobResponse(q, computeOk) ==
  IF ~computeOk
    THEN Json(500, [error |-> "Failed to run job", message |-> "Compute app error"])
  ELSE Json(200, [jobId |-> q.body.jobId,
                  output |-> Output,
                  proof |-> Proof,
                  txHash |-> TxHashOrDefault(q.attached),
                  status |-> "completed"])

\* A TEXT column that is NULL.
NullStr == <<"null">>

\* Mutant: the update does not store the image digest.
CompleteJobWithoutDigest(j, txHash) ==
  [j EXCEPT !.status = "completed",
            !.txHash = txHash,
            !.proofJson = Proof]

\* The db.update of the /api/jobs/run handler.
CompleteJob(j, txHash) ==
  [j EXCEPT !.status = "completed",
            !.txHash = txHash,
            !.imageDigest = Proof.containerImageDigest,
            !.proofJson = Proof]

\* model || 'gpt-oss-120b-f16' and seed !== undefined ? seed : 42, for a body
\* that names neither
DefaultModel == <<"gpt-oss-120b-f16">>
DefaultSeed == 42

\* The row POST /api/jobs/create inserts.
NewJob(id, body) ==
  [id |-> id,
   prompt |-> body.prompt,
   model |-> DefaultModel,
   seed |-> DefaultSeed,
   status |-> "pending_payment",
   txHash |-> Null,
   imageDigest |-> NullStr,
   proofJson |-> Null]

\* Mutant: POST /api/jobs/create quotes the price in dollars.
JobCreateResponseInDollars(id, opts) ==
  Json(402,
    [jobId |-> id,
     status |-> "pending_payment",
     paymentRequired |->
       [x402Version |-> 1,
        accepts |-> <<
          [scheme |-> <<"exact">>,
           network |-> opts.network,
           asset |-> opts.asset,
           payTo |-> opts.payTo,
           maxAmountRequired |-> PriceUsdc,
           resource |-> ResourceOf(UrlJobsRun),
           description |-> <<"AI inference job: ">> \o id,
           maxTimeoutSeconds |-> DefaultMaxTimeoutSeconds] >>]])

\* The 402 body of POST /api/jobs/create.
JobCreateResponse(id, opts) ==
  Json(402,
    [jobId |-> id,
     status |-> "pending_payment",
     paymentRequired |->
       [x402Version |-> 1,
        accepts |-> <<
          [scheme |-> <<"exact">>,
           network |-> opts.network,
           asset |-> opts.asset,
           payTo |-> opts.payTo,
           maxAmountRequired |-> opts.amount,
           resource |-> ResourceOf(UrlJobsRun),
           description |-> <<"AI inference job: ">> \o id,
           maxTimeoutSeconds |-> DefaultMaxTimeoutSeconds] >>]])

(***************************************************************************)
(* EigenX402Client                                                         *)
(***************************************************************************)

\* The wallet of the client and the chain its provider reports.
ClientSigner == AliceChecksum
ClientChainId == BaseSepoliaChainId

NoFetch == [inFlight |-> FALSE]
Fetch(url, header, body) ==
  [inFlight |-> TRUE, url |-> url, header |-> header, body |-> body]

ClientIdle ==
  [pc |-> "idle",
   method |-> "",
   endpoint |-> <<>>,
   body |-> DefaultBody,
   fetch |-> NoFetch,      \* the HTTP request on its way to the server
   sent |-> 0,             \* HTTP requests sent by this call
   signed |-> 0,           \* signatures requested by this call
   result |-> Undefined,   \* the value the call resolved with
   error |-> ""]           \* the message of the Error the call threw

\* response.ok
Ok(res) == res.status >= 200 /\ res.status <= 299

\* paymentResponse.paymentRequired?.accepts?.[0]
RequirementRead(body) ==
  IF /\ "paymentRequired" \in DOMAIN body
     /\ "accepts" \in DOMAIN body.paymentRequired
     /\ Len(body.paymentRequired.accepts) >= 1
    THEN body.paymentRequired.accepts[1]
    ELSE Undefined

\* Buffer.from(JSON.stringify(paymentPayload)).toString('base64')
EncodeHeader(payload) == JsonHeader(payload)

\* Step 3 of the client flow: the authorization the client signs for a requirement.
ClientAuthorization(requirement, nonce, now) ==
  signPaymentAuthorizationAt(ClientSigner, ClientChainId,
    [from |-> ClientSigner,
     to |-> requirement.payTo,
     value |-> requirement.maxAmountRequired,
     network |-> requirement.network,
     asset |-> requirement.asset],
    nonce, now)

\* signer.signTypedData throws for a value that is no integer.
SigningThrows(requirement) == ~IsDigits(requirement.maxAmountRequired)

Threw(c, message) == [c EXCEPT !.pc = "threw", !.error = message, !.fetch = NoFetch]
Returned(c, value) == [c EXCEPT !.pc = "returned", !.result = value, !.fetch = NoFetch]

\* makeX402Request after the first response (lines 78-118).
AfterInitialResponse(c, res, nonce, now) ==
  IF res.status # 402
    THEN IF Ok(res) THEN Returned(c, res.body) ELSE Threw(c, "Request failed")
  ELSE IF RequirementRead(res.body) = Undefined
    THEN Threw(c, "Invalid 402 response: missing payment requirements")
  ELSE IF SigningThrows(RequirementRead(res.body))
    THEN Threw(c, "invalid BigNumberish string")
  ELSE [c EXCEPT !.pc = "awaitPaid",
                 !.signed = c.signed + 1,
                 !.sent = c.sent + 1,
                 !.fetch = Fetch(c.endpoint,
                                 EncodeHeader(ClientAuthorization(
                                   RequirementRead(res.body), nonce, now)),
                                 c.body)]

\* Mutant: a failed paid request is sent once more before giving up.
AfterPaidResponseRetrying(c, res) ==
  IF ~Ok(res) THEN Threw([c EXCEPT !.sent = c.sent + 1], "Paid request failed")
  ELSE Returned(c, res.body)

\* makeX402Request after the paid response (lines 120-125).
AfterPaidResponse(c, res) ==
  IF ~Ok(res) THEN Threw(c, "Paid request failed")
  ELSE Returned(c, res.body)

\* createAndPayJob after the response of /api/jobs/create (lines 143-161, 181-183).
AfterCreateResponse(c, res, nonce, now) ==
  IF res.status # 402 THEN Threw(c, "Unexpected response")
  ELSE IF RequirementRead(res.body) = Undefined
    THEN Threw(c, "Cannot read properties of undefined (reading 'accepts')")
  ELSE IF SigningThrows(RequirementRead(res.body))
    THEN Threw(c, "invalid BigNumberish string")
  ELSE [c EXCEPT !.pc = "awaitRun",
                 !.signed = c.signed + 1,
                 !.sent = c.sent + 1,
                 !.fetch = Fetch(UrlJobsRun,
                                 EncodeHeader(ClientAuthorization(
                                   RequirementRead(res.body), nonce, now)),
                                 Body(UndefStr, res.body.jobId))]

\* createAndPayJob after the response of /api/jobs/run (lines 163-168, 207-212).
AfterRunResponse(c, res) ==
  IF ~Ok(res) THEN Threw(c, "Job execution failed")
  ELSE Returned(c, [jobId |-> res.body.jobId,
                    output |-> res.body.output,
                    proof |-> res.body.proof,
                    txHash |-> res.body.txHash])

(***************************************************************************)
(* Actions                                                                 *)
(***************************************************************************)

\* A request of some other sender arrives and the middleware runs to its
\* first wait or to its end.
Request(r) ==
  /\ req[r].pc = "idle"
  /\ \E url \in Urls, header \in Headers, now \in Times :
       req' = [req EXCEPT ![r] = Handle(Idle, url, header, now, options)]
  /\ UNCHANGED <<options, jobs, client>>

\* usdc.transferWithAuthorization(...) resolves: the transaction is submitted.
SubmitAccepted(r) ==
  /\ req[r].pc = "submitting"
  /\ req' = [req EXCEPT ![r].pc = "confirming"]
  /\ UNCHANGED <<options, jobs, client>>

\* usdc.transferWithAuthorization(...) rejects (gas estimation fails, the
\* RPC is unreachable, the nonce was used).
SubmitRejected(r) ==
  /\ req[r].pc = "submitting"
  /\ req' = [req EXCEPT ![r] =
       AfterVerification(
         [req[r] EXCEPT !.log = req[r].log \o <<"settlePaymentThrew">>],
         SettlementThrew("transaction submission failed"), options)]
  /\ UNCHANGED <<options, jobs, client>>

\* Mutant: settlePayment returns the block hash of the receipt.
ReceiptHashOfBlock(receipt) == [receiptHash |-> <<"0xblock">>]

\* return receipt.hash
ReceiptHash(receipt) == [receiptHash |-> receipt.hash]

\* tx.wait() resolves with a receipt; receipt.hash is the settlement id.
ConfirmReceipt(r) ==
  /\ req[r].pc = "confirming"
  /\ \E tx \in TxIds :
       LET receipt == [hash |-> tx] IN
       req' = [req EXCEPT ![r] =
         AfterVerification(
           [req[r] EXCEPT !.receipt = receipt,
                          !.log = req[r].log \o <<"settlePaymentReturned">>],
           [valid |-> TRUE, txHash |-> ReceiptHash(receipt)],
           options)]
  /\ UNCHANGED <<options, jobs, client>>

\* tx.wait() rejects: the transaction reverted.
ConfirmReverted(r) ==
  /\ req[r].pc = "confirming"
  /\ req' = [req EXCEPT ![r] =
       AfterVerification(
         [req[r] EXCEPT !.log = req[r].log \o <<"settlePaymentThrew">>],
         SettlementThrew("transaction execution reverted"), options)]
  /\ UNCHANGED <<options, jobs, client>>

\* The handler of /api/generate-text answers a granted request.
GenerateTextHandler(r) ==
  /\ req[r].pc = "downstream"
  /\ req[r].url = UrlGenerateText
  /\ \E computeOk \in BOOLEAN :
       req' = [req EXCEPT ![r] = GenerateText(req[r], computeOk)]
  /\ UNCHANGED <<options, jobs, client>>

\* The handler of /api/jobs/run takes a granted request: it reads the job and
\* either answers or posts the inference request to the compute app.
RunJobHandler(r) ==
  /\ req[r].pc = "downstream"
  /\ req[r].url = UrlJobsRun
  /\ LET res == RunJobRefusal(req[r]) IN
     req' = IF res = NoResponse
              THEN [req EXCEPT ![r].pc = "computing",
                               ![r].log = req[r].log \o <<"infer">>]
              ELSE [req EXCEPT ![r].pc = "done", ![r].res = res]
  /\ UNCHANGED <<options, jobs, client>>

\* The compute app answers the inference request of /api/jobs/run: the
\* handler updates the job and responds, or responds 500.
RunJobAfterCompute(r) ==
  /\ req[r].pc = "computing"
  /\ req[r].url = UrlJobsRun
  /\ \E computeOk \in BOOLEAN :
       LET res == RunJobResponse(req[r], computeOk) IN
       /\ req' = [req EXCEPT ![r].pc = "done", ![r].res = res]
       /\ jobs' = IF res.status = 200
                    THEN {IF j.id = req[r].body.jobId
                            THEN CompleteJob(j, TxHashOrDefault(req[r].attached))
                            ELSE j : j \in jobs}
                    ELSE jobs
  /\ UNCHANGED <<options, client>>

\* The exchange of some other sender is over: the slot is free again.
Release(r) ==
  /\ req[r].pc = "done"
  /\ req[r].sender = "other"
  /\ req' = [req EXCEPT ![r] = Idle]
  /\ UNCHANGED <<options, jobs, client>>

\* A call of makeX402Request or createAndPayJob starts (up to its first fetch).
ClientCall ==
  /\ client.pc = "idle"
  /\ \E method \in {"makeX402Request", "createAndPayJob"},
        endpoint \in Urls \cup {UrlJobsCreate},
        hasSigner \in BOOLEAN :
       LET c == [ClientIdle EXCEPT !.method = method,
                                   !.endpoint = IF method = "createAndPayJob"
                                                  THEN UrlJobsCreate ELSE endpoint]
       IN client' =
            IF ~hasSigner
              THEN Threw(c, "Signer required for payment. Call setSigner() first.")
              ELSE [c EXCEPT !.pc = IF method = "createAndPayJob"
                                      THEN "awaitCreate" ELSE "awaitInitial",
                             !.sent = 1,
                             !.fetch = Fetch(c.endpoint, NoHeader, c.body)]
  /\ UNCHANGED <<options, req, jobs>>

\* A fetch of the client reaches a gated route: the middleware runs.
ClientRequestGated(r) ==
  /\ client.fetch.inFlight
  /\ client.fetch.url \in Urls
  /\ req[r].pc = "idle"
  /\ \E now \in Times :
       req' = [req EXCEPT ![r] =
         Handle([Idle EXCEPT !.sender = "client", !.body = client.fetch.body],
                client.fetch.url, client.fetch.header, now, options)]
  /\ client' = [client EXCEPT !.fetch = NoFetch]
  /\ UNCHANGED <<options, jobs>>

\* The POST /api/jobs/create handler on the request q arriving in slot r.
CreateJobHandler(r, q) ==
  IF InvalidPrompt(q.body)
    THEN /\ req' = [req EXCEPT ![r] =
              [q EXCEPT !.pc = "done",
                        !.res = Json(400, [error |-> "Invalid prompt"])]]
         /\ jobs' = jobs
    ELSE \E id \in JobIds :
           /\ JobWithId(id) = {}
           /\ req' = [req EXCEPT ![r] =
                [q EXCEPT !.pc = "done",
                          !.res = JobCreateResponse(id, options)]]
           /\ jobs' = jobs \cup {NewJob(id, q.body)}

\* A fetch of the client reaches POST /api/jobs/create.
ClientRequestCreate(r) ==
  /\ client.fetch.inFlight
  /\ client.fetch.url = UrlJobsCreate
  /\ req[r].pc = "idle"
  /\ CreateJobHandler(r, [Idle EXCEPT !.sender = "client", !.url = UrlJobsCreate,
                                      !.header = client.fetch.header,
                                      !.body = client.fetch.body])
  /\ client' = [client EXCEPT !.fetch = NoFetch]
  /\ UNCHANGED options

\* The response to the first fetch of makeX402Request arrives.
ClientOnInitialResponse(r) ==
  /\ client.pc = "awaitInitial"
  /\ req[r].pc = "done" /\ req[r].sender = "client"
  /\ \E nonce \in {Nonce1, Nonce2}, now \in Times :
       client' = AfterInitialResponse(client, req[r].res, nonce, now)
  /\ req' = [req EXCEPT ![r] = Idle]
  /\ UNCHANGED <<options, jobs>>

\* The response to the paid fetch of makeX402Request arrives.
ClientOnPaidResponse(r) ==
  /\ client.pc = "awaitPaid"
  /\ req[r].pc = "done" /\ req[r].sender = "client"
  /\ client' = AfterPaidResponse(client, req[r].res)
  /\ req' = [req EXCEPT ![r] = Idle]
  /\ UNCHANGED <<options, jobs>>

\* The response of /api/jobs/create arrives at createAndPayJob.
ClientOnCreateResponse(r) ==
  /\ client.pc = "awaitCreate"
  /\ req[r].pc = "done" /\ req[r].sender = "client"
  /\ \E nonce \in {Nonce1, Nonce2}, now \in Times :
       client' = AfterCreateResponse(client, req[r].res, nonce, now)
  /\ req' = [req EXCEPT ![r] = Idle]
  /\ UNCHANGED <<options, jobs>>

\* The response of /api/jobs/run arrives at createAndPayJob.
ClientOnRunResponse(r) ==
  /\ client.pc = "awaitRun"
  /\ req[r].pc = "done" /\ req[r].sender = "client"
  /\ client' = AfterRunResponse(client, req[r].res)
  /\ req' = [req EXCEPT ![r] = Idle]
  /\ UNCHANGED <<options, jobs>>

\* The call has settled; the application may call again.
ClientDone ==
  /\ client.pc \in {"returned", "threw"}
  /\ client' = ClientIdle
  /\ UNCHANGED <<options, req, jobs>>

Slots == {1}

Init ==
  /\ options \in RouteOptions
  /\ req = [r \in Slots |-> Idle]
  /\ jobs = {}
  /\ client = ClientIdle

\* The middleware and the handlers behind it, under requests of any sender.
\* No job is created here, so the /api/jobs/run handler answers before it
\* gets to the compute app (RunJobAfterCompute is a step of SpecClient and
\* SpecJobs).
Next ==
  \E r \in Slots :
    \/ Request(r)
    \/ SubmitAccepted(r)
    \/ SubmitRejected(r)
    \/ ConfirmReceipt(r)
    \/ ConfirmReverted(r)
    \/ GenerateTextHandler(r)
    \/ RunJobHandler(r)
    \/ Release(r)

Spec == Init /\ [][Next]_vars

\* The client SDK against the server, every request being a fetch of the
\* client.  The handler of /api/generate-text is not a step here: it needs a
\* granted request on that route, and no fetch of the client is one
\* (GenerateTextNeverReached).
NextClient ==
  \/ ClientCall
  \/ ClientDone
  \/ \E r \in Slots :
       \/ ClientRequestGated(r)
       \/ ClientRequestCreate(r)
       \/ ClientOnInitialResponse(r)
       \/ ClientOnPaidResponse(r)
       \/ ClientOnCreateResponse(r)
       \/ ClientOnRunResponse(r)
       \/ SubmitAccepted(r)
       \/ SubmitRejected(r)
       \/ ConfirmReceipt(r)
       \/ ConfirmReverted(r)
       \/ RunJobHandler(r)
       \/ RunJobAfterCompute(r)

SpecClient == Init /\ [][NextClient]_vars

\* The steps the server takes by itself, as opposed to the arrival of a
\* request and to what the chain answers.
ServerStep ==
  \E r \in Slots : GenerateTextHandler(r) \/ RunJobHandler(r)

\* The chain does answer the submission of a transaction, one way or the other.
SubmissionAnswered ==
  \E r \in Slots : SubmitAccepted(r) \/ SubmitRejected(r)

\* The server keeps running and the RPC node answers; nothing is assumed
\* about whether a submitted transaction is ever mined.
SpecLive ==
  /\ Init
  /\ [][Next]_vars
  /\ WF_vars(ServerStep)
  /\ WF_vars(SubmissionAnswered)

(***************************************************************************)
(* The jobs server under concurrent requests                               *)
(***************************************************************************)

\* The options routes/jobs.ts passes to requirePayment for /api/jobs/run,
\* with the defaults of config.ts: no merchant key is configured, and
\* ENABLE_REAL_SETTLEMENT is set or not.
JobsRouteOptions ==
  [amount : {priceInAtomicUnits(PriceUsdc)},
   asset : {USDC},
   network : {BaseSepolia},
   payTo : {MerchantLower},
   description : {<<"AI inference with verifiable compute">>},
   chainId : {BaseSepoliaChainId},
   merchantPrivateKey : {<<>>},
   enableRealSettlement : BOOLEAN]

\* A second authorization of Alice for the right terms, signed at clock
\* value 0 with the default window.
SecondPayment ==
  signPaymentAuthorizationAt(AliceLower, BaseSepoliaChainId,
    [from |-> AliceLower, to |-> MerchantLower, value |-> Amount50000,
     network |-> BaseSepolia, asset |-> USDC],
    Nonce2, 0)

\* The X-PAYMENT headers sent to /api/jobs/run: none, two valid
\* authorizations, one made out to somebody else.
JobHeaders ==
  {NoHeader,
   encodePaymentHeader(SamplePayment),
   encodePaymentHeader(SecondPayment),
   encodePaymentHeader(WithPayload(SamplePayment, "to", Eve))}

\* The clock values at which requests reach /api/jobs/run: one inside the
\* window of every authorization sent, one after the window of the first.
JobTimes == {1, MaxTime}

\* The proofs the compute app can return: that of the first run, and that of
\* a run whose output differs.
OtherProof == [Proof EXCEPT !.outputHash = <<"sha256:other">>]
Proofs == {Proof, OtherProof}

UrlJobReplay(id) == <<"/api/jobs/">> \o id \o <<"/replay">>
\* req.params.id of a replay request
ReplayId(url) == <<url[2]>>

\* The 200 body of POST /api/jobs/:id/replay.
ReplayResponseAlwaysVerified(q, proof) ==
  Json(200, [jobId |-> ReplayId(q.url),
             verified |-> TRUE,
             originalOutputHash |-> q.job.proofJson.outputHash,
             recomputedOutputHash |-> proof.outputHash])

ReplayResponse(q, proof) ==
  Json(200, [jobId |-> ReplayId(q.url),
             verified |-> proof.outputHash = q.job.proofJson.outputHash,
             originalOutputHash |-> q.job.proofJson.outputHash,
             recomputedOutputHash |-> proof.outputHash])

\* A request of some other sender reaches POST /api/jobs/create.
CreateRequest(r) ==
  /\ req[r].pc = "idle"
  /\ \E prompt \in {Prompt, UndefStr, <<>>, NumberPrompt} :
       CreateJobHandler(r, [Idle EXCEPT !.url = UrlJobsCreate,
                                        !.body = Body(prompt, UndefStr)])
  /\ UNCHANGED <<options, client>>

\* A request of some other sender reaches POST /api/jobs/run: the
\* middleware runs (simulated settlement: to its end).
RunRequest(r) ==
  /\ req[r].pc = "idle"
  /\ \E header \in JobHeaders, jobId \in JobIds \cup {UndefStr}, now \in JobTimes :
       req' = [req EXCEPT ![r] =
         Handle([Idle EXCEPT !.body = Body(UndefStr, jobId)],
                UrlJobsRun, header, now, options)]
  /\ UNCHANGED <<options, jobs, client>>

\* A request reaches POST /api/jobs/:id/replay: the handler reads the job and
\* either answers or posts the inference request to the compute app.
ReplayRequest(r) ==
  /\ req[r].pc = "idle"
  /\ \E id \in JobIds :
       LET q == [Idle EXCEPT !.url = UrlJobReplay(id),
                             !.body = Body(UndefStr, UndefStr)]
       IN req' = [req EXCEPT ![r] =
            IF JobWithId(id) = {}
              THEN [q EXCEPT !.pc = "done",
                             !.res = Json(404, [error |-> "Job not found"])]
            ELSE LET job == CHOOSE j \in JobWithId(id) : TRUE IN
              IF job.proofJson = Null
                THEN [q EXCEPT !.pc = "done",
                               !.res = Json(400, [error |-> "Job has no proof to verify"])]
                ELSE [q EXCEPT !.pc = "replaying", !.job = job,
                               !.log = <<"infer">>]]
  /\ UNCHANGED <<options, jobs, client>>

\* The compute app answers the inference request of a replay.
ReplayAfterCompute(r) ==
  /\ req[r].pc = "replaying"
  /\ \/ req' = [req EXCEPT ![r].pc = "done",
                           ![r].res = Json(500, [error |-> "Failed to replay job",
                                                 message |-> "Compute app error"])]
     \/ \E proof \in Proofs :
          req' = [req EXCEPT ![r].pc = "done",
                             ![r].res = ReplayResponse(req[r], proof)]
  /\ UNCHANGED <<options, jobs, client>>

\* Two requests can be in progress at once.
JobSlots == {1, 2}

InitJobs ==
  /\ options \in JobsRouteOptions
  /\ req = [r \in JobSlots |-> Idle]
  /\ jobs = {}
  /\ client = ClientIdle

NextJobs ==
  \E r \in JobSlots :
    \/ CreateRequest(r)
    \/ RunRequest(r)
    \/ RunJobHandler(r)
    \/ RunJobAfterCompute(r)
    \/ ReplayRequest(r)
    \/ ReplayAfterCompute(r)
    \/ Release(r)

SpecJobs == InitJobs /\ [][NextJobs]_vars

(***************************************************************************)
(* The jobs server with real settlement, one request at a time             *)
(***************************************************************************)

\* The options of /api/jobs/run with or without MERCHANT_PRIVATE_KEY and
\* ENABLE_REAL_SETTLEMENT.
SettlingRouteOptions ==
  [amount : {priceInAtomicUnits(PriceUsdc)},
   asset : {USDC},
   network : {BaseSepolia},
   payTo : {MerchantLower},
   description : {<<"AI inference with verifiable compute">>},
   chainId : {BaseSepoliaChainId},
   merchantPrivateKey : {<<>>, MerchantKey},
   enableRealSettlement : BOOLEAN]

InitSettling ==
  /\ options \in SettlingRouteOptions
  /\ req = [r \in Slots |-> Idle]
  /\ jobs = {}
  /\ client = ClientIdle

NextSettling ==
  \E r \in Slots :
    \/ CreateRequest(r)
    \/ RunRequest(r)
    \/ SubmitAccepted(r)
    \/ SubmitRejected(r)
    \/ ConfirmReceipt(r)
    \/ ConfirmReverted(r)
    \/ RunJobHandler(r)
    \/ RunJobAfterCompute(r)
    \/ Release(r)

SpecSettling == InitSettling /\ [][NextSettling]_vars

(***************************************************************************)
(* Properties                                                              *)
(***************************************************************************)

\* The authorization a request carries, as the codec decodes it.
PaymentOf(q) == parsePaymentHeader(q.header)

\* The header is present (non-empty) and the codec decodes it.
Decoded(q) == ~HeaderFalsy(q.header) /\ PaymentOf(q) # Null

NetworkOk(q) == PaymentOf(q).network = options.network
AmountOk(q) == PaymentOf(q).payload.value = options.amount
RecipientOk(q) ==
  /\ PaymentOf(q).payload.to # UndefStr
  /\ toLowerCase(PaymentOf(q).payload.to) = toLowerCase(options.payTo)
WindowOk(q) ==
  /\ PaymentOf(q).payload.validAfter <= q.now
  /\ q.now <= PaymentOf(q).payload.validBefore
SignatureOk(q) ==
  LET payload == PaymentOf(q).payload IN
  /\ TypedDataOk(options.asset, MessageOf(payload))
  /\ payload.vrs.wellFormed
  /\ payload.vrs.digest =
       TypedDataDigest(options.chainId, options.asset, MessageOf(payload))
  /\ payload.vrs.signer = toLowerCase(payload.from)

FiveConditions(q) ==
  NetworkOk(q) /\ AmountOk(q) /\ RecipientOk(q) /\ WindowOk(q) /\ SignatureOk(q)

\* The position of the first occurrence of event e in log, 0 if none.
FirstIndex(log, e) ==
  IF \E i \in DOMAIN log : log[i] = e
    THEN CHOOSE i \in DOMAIN log : log[i] = e /\ \A j \in 1..(i - 1) : log[j] # e
    ELSE 0

Has(log, e) == FirstIndex(log, e) > 0

Before(log, a, b) == Has(log, a) /\ Has(log, b) /\ FirstIndex(log, a) < FirstIndex(log, b)

SettlementStarted(log) == Has(log, "settlePayment") \/ Has(log, "generateSimulatedTxHash")

\* C1: the downstream handler is invoked only for a request whose header was
\* present and decoded and whose authorization meets all five conditions at
\* once: network, amount, recipient (ignoring case), validity window around
\* now, and signer recovered from (v,r,s) equal to from (ignoring case).
C1_NextOnlyIfAllFiveHold ==
  \A r \in DOMAIN req :
    req[r].nextCalled => Decoded(req[r]) /\ FiveConditions(req[r])

\* A request was granted in simulated mode.
C1_Witness ==
  \E r \in DOMAIN req :
    /\ req[r].nextCalled
    /\ ~options.enableRealSettlement
    /\ PaymentOf(req[r]).payload.to = MerchantChecksum

\* C2: settlement starts only after all five checks passed and ends before
\* next(); a valid verification result carries a defined txHash, and the
\* downstream handler is never entered without it attached to the request.
C2_SettlementBetweenChecksAndNext ==
  \A r \in DOMAIN req :
    LET q == req[r] IN
    /\ SettlementStarted(q.log) =>
         /\ Decoded(q) /\ FiveConditions(q)
         /\ Before(q.log, "checksPassed", "settlePayment")
            \/ Before(q.log, "checksPassed", "generateSimulatedTxHash")
    /\ q.pc \in {"submitting", "confirming"} => ~q.nextCalled /\ q.attached = NotSet
    /\ q.nextCalled =>
         /\ Before(q.log, "settlePaymentReturned", "next")
            \/ Before(q.log, "generateSimulatedTxHash", "next")
         /\ \A i \in DOMAIN q.log :
              q.log[i] \in {"settlePayment", "settlePaymentReturned",
                            "generateSimulatedTxHash"}
                => i < FirstIndex(q.log, "next")
         /\ q.attached # NotSet
         /\ q.attached.txHash # Undefined
         /\ \/ q.attached.txHash = [keccak256 |-> PaymentOf(q).payload]
            \/ \E tx \in TxIds : q.attached.txHash = [receiptHash |-> tx]
    /\ (q.verification # Undefined /\ q.verification.valid) =>
         /\ "txHash" \in DOMAIN q.verification
         /\ q.verification.txHash # Undefined
         /\ q.attached # NotSet /\ q.attached.txHash = q.verification.txHash

\* A request was granted after a confirmed on-chain settlement.
C2_Witness ==
  \E r \in DOMAIN req :
    /\ req[r].nextCalled
    /\ req[r].attached.txHash = [receiptHash |-> <<"0xtx1">>]
    /\ Has(req[r].log, "settlePayment")

\* The envelope a header-less request to the same URL receives.
ChallengeBody(q) == Handle(Idle, q.url, NoHeader, q.now, options).res.body

\* The request ended with a 402 rejection carrying reason `msg`.
RejectedWith(q, msg) ==
  /\ q.pc = "done"
  /\ q.res.sent /\ q.res.status = 402
  /\ "reason" \in DOMAIN q.res.body
  /\ q.res.body.reason.msg = msg

\* Real settlement was started for the request and settlePayment threw.
SettlementFailed(q) == q.pc = "done" /\ Has(q.log, "settlePaymentThrew")

\* C3 (as claimed): when real settlement fails after all checks passed, the
\* middleware responds 500 and not a 402 rejection, and next() is not called.
C3_SettlementFailureIs500 ==
  \A r \in DOMAIN req :
    SettlementFailed(req[r]) =>
      /\ req[r].res.sent /\ req[r].res.status = 500
      /\ ~req[r].nextCalled

AnsweredMalformed(q) ==
  /\ q.pc = "done"
  /\ q.res = Json(400, [error |-> "Invalid X-PAYMENT header format"])
  /\ ~Has(q.log, "verifyPayment")
  /\ ~SettlementStarted(q.log)
  /\ ~q.nextCalled

\* C5 (as claimed): every request whose header is present but which
\* parsePaymentHeader cannot decode is answered 400 "Invalid X-PAYMENT header
\* format"; verification and settlement never run and next() is not called.
C5_PresentUndecodableIs400 ==
  \A r \in DOMAIN req :
    LET q == req[r] IN
    (q.pc # "idle" /\ q.header # NoHeader /\ parsePaymentHeader(q.header) = Null)
      => AnsweredMalformed(q)

\* C5 (amended): the same for every header that is present and not the
\* empty string.
C5_NonEmptyUndecodableIs400 ==
  \A r \in DOMAIN req :
    LET q == req[r] IN
    (q.pc # "idle" /\ ~HeaderFalsy(q.header) /\ parsePaymentHeader(q.header) = Null)
      => AnsweredMalformed(q)

\* The header "not-base64-json" was answered 400.
C5_Witness ==
  \E r \in DOMAIN req :
    /\ req[r].header = RawHeader(<<"not-base64-json">>)
    /\ req[r].pc = "done" /\ req[r].res.status = 400

\* C6: a request whose header decodes but whose authorization fails a check
\* gets status 402 with {error: "Payment verification failed", reason, x402},
\* reason being the verifier's and x402 the envelope a header-less request to
\* the same URL gets; a wrong recipient (network and amount right) gives a
\* reason with "Recipient mismatch"; nothing is settled, next() is not called.
C6_InvalidPaymentIs402WithRequirement ==
  \A r \in DOMAIN req :
    LET q == req[r] IN
    (q.pc # "idle" /\ Decoded(q) /\ ~FiveConditions(q)) =>
      /\ q.pc = "done"
      /\ q.res.sent /\ q.res.status = 402
      /\ DOMAIN q.res.body = {"error", "reason", "x402"}
      /\ q.res.body.error = "Payment verification failed"
      /\ q.res.body.reason = q.verification.reason
      /\ q.res.body.reason.msg # ""
      /\ q.res.body.x402 = ChallengeBody(q)
      /\ (NetworkOk(q) /\ AmountOk(q) /\ PaymentOf(q).payload.to = Eve)
           => q.res.body.reason.msg = "Recipient mismatch"
      /\ ~SettlementStarted(q.log)
      /\ ~q.nextCalled

\* Scenario B: an authorization paying Eve was rejected.
C6_Witness ==
  \E r \in DOMAIN req :
    /\ Decoded(req[r])
    /\ PaymentOf(req[r]).payload.to = Eve
    /\ RejectedWith(req[r], "Recipient mismatch")
    /\ req[r].res.body.x402.accepts[1].payTo = options.payTo

\* The reason verifyPayment returned for the request ("" if none).
ReasonOf(q) ==
  IF q.verification # Undefined /\ ~q.verification.valid
    THEN q.verification.reason.msg
    ELSE ""

\* verifyPayment ran for the request.
Verified(q) == q.pc # "idle" /\ Decoded(q)

\* Under SpecClient no request on /api/generate-text is ever granted, so
\* leaving GenerateTextHandler out of NextClient removes no behaviour.
GenerateTextNeverReached ==
  \A r \in DOMAIN req :
    ~(req[r].pc = "downstream" /\ req[r].url = UrlGenerateText)

\* A call of makeX402Request on a route gated by requirePayment, made with a
\* signer, has settled.
SettledGatedCall ==
  /\ client.method = "makeX402Request"
  /\ client.endpoint \in Urls
  /\ client.pc \in {"returned", "threw"}
  /\ client.error # "Signer required for payment. Call setSigner() first."

\* C7: Scenario A end to end.  A call of makeX402Request on a route gated by
\* requirePayment reads the requirement from the 402 challenge, signs one
\* authorization and retries with X-PAYMENT (two requests in all); what it
\* returns is the downstream response, which carries the settlement id.  It
\* never fails to read the requirement from the challenge the middleware sent.
C7_ClientPaysAndGetsDownstreamResponse ==
  SettledGatedCall =>
    /\ client.error # "Invalid 402 response: missing payment requirements"
    /\ client.signed = 1
    /\ client.sent = 2
    /\ client.pc = "returned" =>
         /\ "txHash" \in DOMAIN client.result
         /\ client.result.txHash # Undefined

C9_WindowIsInclusive ==
  \A r \in DOMAIN req :
    LET q == req[r]
        p == PaymentOf(q).payload
    IN (Verified(q) /\ NetworkOk(q) /\ AmountOk(q) /\ RecipientOk(q) /\ SignatureOk(q)) =>
      /\ (q.now = p.validAfter /\ q.now <= p.validBefore) => Has(q.log, "checksPassed")
      /\ (q.now = p.validBefore /\ q.now >= p.validAfter) => Has(q.log, "checksPassed")
      /\ q.now = p.validAfter - 1 => RejectedWith(q, "Payment not yet valid")
      /\ (q.now = p.validBefore + 1 /\ q.now >= p.validAfter) =>
           RejectedWith(q, "Payment expired")
      /\ Has(q.log, "checksPassed") <=> (p.validAfter <= q.now /\ q.now <= p.validBefore)

\* An authorization was accepted at now = validBefore, later than validAfter.
C9_Witness ==
  \E r \in DOMAIN req :
    LET q == req[r] IN
    /\ Verified(q)
    /\ q.now = PaymentOf(q).payload.validBefore
    /\ q.now > PaymentOf(q).payload.validAfter
    /\ q.nextCalled

\* The amounts the claim names as different from "50000".
NearAmounts == {Amount50001, Amount050000, Amount50000dot0}

\* The request passed the amount check (it failed a later one, or none).
PassedAmountCheck(q) ==
  ReasonOf(q) \notin {"Network mismatch", "Amount mismatch"}

\* C10: the amount check is string equality: against the expected "50000"
\* the value "50000" passes, and "50001", "050000" and "50000.0" are each
\* rejected with an amount-mismatch reason.
C10_AmountIsStringEquality ==
  \A r \in DOMAIN req :
    LET q == req[r]
        p == PaymentOf(q).payload
    IN (Verified(q) /\ NetworkOk(q) /\ options.amount = Amount50000) =>
      /\ p.value = Amount50000 => PassedAmountCheck(q)
      /\ p.value \in NearAmounts =>
           /\ RejectedWith(q, "Amount mismatch")
           /\ q.res.body.reason.a = Amount50000
           /\ q.res.body.reason.b = p.value
           /\ ~q.nextCalled
      /\ p.value # Amount50000 => RejectedWith(q, "Amount mismatch")

\* The value "050000", correctly signed, was rejected for its amount.
C10_Witness ==
  \E r \in DOMAIN req :
    LET q == req[r] IN
    /\ Verified(q)
    /\ PaymentOf(q).payload.value = Amount050000
    /\ RecipientOk(q) /\ WindowOk(q) /\ SignatureOk(q)
    /\ RejectedWith(q, "Amount mismatch")

\* All four policy checks pass for the request, so the signature check runs.
PolicyValid(q) ==
  Verified(q) /\ NetworkOk(q) /\ AmountOk(q) /\ RecipientOk(q) /\ WindowOk(q)

\* Account A signed p with from = A.
HonestlySigned(p) ==
  p \in SignedPayments /\ p.payload.vrs.signer = toLowerCase(p.payload.from)

SameAddress(a, b) == toLowerCase(a) = toLowerCase(b)

\* Payload x differs from the signed payload s: another address in from or
\* to, another value string, another validAfter, validBefore or nonce.
ChangedAfterSigning(s, x) ==
  \/ ~SameAddress(s.from, x.from)
  \/ ~SameAddress(s.to, x.to)
  \/ s.value # x.value
  \/ s.validAfter # x.validAfter
  \/ s.validBefore # x.validBefore
  \/ s.nonce # x.nonce

\* The same, a value counting as changed only if it denotes another number.
ChangedInSignedData(s, x) ==
  \/ ~SameAddress(s.from, x.from)
  \/ ~SameAddress(s.to, x.to)
  \/ NumVal(DigitPrefix(s.value)) # NumVal(DigitPrefix(x.value))
  \/ s.validAfter # x.validAfter
  \/ s.validBefore # x.validBefore
  \/ s.nonce # x.nonce

CaseVariants(a) ==
  LET lower == toLowerCase(a) IN
  {lower,
   ChecksumOf(lower),
   [i \in DOMAIN lower |-> IF i > 2 THEN UpperChar(lower[i]) ELSE lower[i]],
   [i \in DOMAIN lower |-> IF i = 4 THEN UpperChar(lower[i]) ELSE lower[i]]}

\* C12 (as claimed): changing only the letter case of payload.to, of the
\* route's payTo or of payload.from never changes whether verifyPayment
\* accepts the authorization.
C12_LetterCaseNeverChangesOutcome ==
  \A r \in DOMAIN req :
    LET q == req[r]
        p == PaymentOf(q)
    IN (Verified(q) /\ p.payload.to # UndefStr) =>
      \A to \in CaseVariants(p.payload.to),
         from \in CaseVariants(p.payload.from),
         payTo \in CaseVariants(options.payTo) :
        VerifyChecks(WithPayload(WithPayload(p, "to", to), "from", from),
                     VerificationOptions([options EXCEPT !.payTo = payTo]),
                     VerifierConfig(options), q.now).valid
          = VerifyChecks(p, VerificationOptions(options),
                         VerifierConfig(options), q.now).valid

\* verifyPayment's catch block ran for the request: an exception was raised
\* inside the verifier or inside settlePayment.
ExceptionRaised(q) == q.pc = "done" /\ ReasonOf(q) = "Verification error: "

\* C13 (as claimed): an exception raised in the gating path is answered with
\* status 500 and the generic "Payment processing error" message, and the
\* text of a verifier or settlement exception is in no response body.
C13_ExceptionsAreGeneric500 ==
  \A r \in DOMAIN req :
    LET q == req[r] IN
    ExceptionRaised(q) =>
      /\ q.res.sent /\ q.res.status = 500
      /\ q.res.body.error = "Payment processing error"
      /\ "reason" \notin DOMAIN q.res.body
      /\ "message" \in DOMAIN q.res.body => q.res.body.message = ""

\* C14: verifyPayment does not throw for an invalid payment: for every
\* decoded authorization failing one of the five conditions (a payload
\* without `to`, a wrongly cased address and an unparseable signature
\* included) it returns valid = false with a non-empty reason, which the
\* middleware sends as a 402 rejection.
C14_InvalidPaymentGetsReason ==
  \A r \in DOMAIN req :
    LET q == req[r] IN
    (Verified(q) /\ ~FiveConditions(q)) =>
      /\ q.verification # Undefined
      /\ ~q.verification.valid
      /\ "txHash" \notin DOMAIN q.verification
      /\ q.verification.reason.msg # ""
      /\ q.res.sent /\ q.res.status # 500

\* An authorization with an unparseable signature, valid otherwise, got a
\* verification result with a reason.
C14_Witness ==
  \E r \in DOMAIN req :
    LET q == req[r] IN
    /\ PolicyValid(q)
    /\ ~PaymentOf(q).payload.vrs.wellFormed
    /\ ~q.verification.valid
    /\ q.verification.reason.msg = "Verification error: "

\* Values of type X402PaymentPayload a sender may encode: every property
\* present and of its declared type.
TypedAuthorizations ==
  {p \in Payments : p.payload.to # UndefStr}
  \cup {[SamplePayment EXCEPT !.x402Version = 0],
        [SamplePayment EXCEPT !.network = <<>>]}

NotBase64OfJson(h) == h.kind \in {"raw", "loosebase64json"}

\* The header decodes to JSON that is not an object or lacks one of the
\* four envelope properties.
NotAnEnvelope(h) ==
  /\ h.kind = "base64json"
  /\ \/ h.doc \in {JsonNull, JsonNumber}
     \/ EnvelopeFields \ DOMAIN h.doc # {}

\* parsePaymentHeader returns a value only for a document with all four
\* envelope properties.
NonNullOnlyWithAllFields(h) ==
  parsePaymentHeader(h) # Null =>
    /\ h.kind # "raw"
    /\ EnvelopeFields \subseteq DOMAIN h.doc
    /\ parsePaymentHeader(h) = h.doc

\* C16 (as claimed): parsePaymentHeader returns null, and does not throw, for
\* every header that is not valid base64, is not JSON, is JSON but no object,
\* or lacks one of x402Version, scheme, network, payload; it returns a value
\* only when all four are present.
C16_NullForEveryBadHeader ==
  \A r \in DOMAIN req :
    LET q == req[r] IN
    (q.pc # "idle" /\ q.header # NoHeader) =>
      /\ (NotBase64OfJson(q.header) \/ NotAnEnvelope(q.header)) =>
           /\ parsePaymentHeader(q.header) = Null
           /\ q.payment = Null
           /\ q.res.sent => q.res.status # 500
      /\ NonNullOnlyWithAllFields(q.header)

\* C16 (amended): the same, a header counting as not valid base64 only if
\* what Buffer.from(header, 'base64') decodes, skipping the characters
\* outside the alphabet, is not JSON text.
C16_NullForEveryUndecodableHeader ==
  \A r \in DOMAIN req :
    LET q == req[r] IN
    (q.pc # "idle" /\ q.header # NoHeader) =>
      /\ (q.header.kind = "raw" \/ NotAnEnvelope(q.header)) =>
           /\ parsePaymentHeader(q.header) = Null
           /\ q.payment = Null
           /\ q.res.sent => q.res.status # 500
      /\ NonNullOnlyWithAllFields(q.header)

\* A header whose JSON object has no x402Version was answered as malformed.
C16_Witness ==
  \E r \in DOMAIN req :
    /\ req[r].header = JsonHeader(Without(SamplePayment, "x402Version"))
    /\ req[r].pc = "done"
    /\ req[r].payment = Null
    /\ req[r].res.status = 400

\* The requirements a 402 body carries.
RequirementsIn(body) ==
  IF "accepts" \in DOMAIN body THEN {body.accepts[i] : i \in DOMAIN body.accepts}
  ELSE IF "x402" \in DOMAIN body
    THEN {body.x402.accepts[i] : i \in DOMAIN body.x402.accepts}
  ELSE IF "paymentRequired" \in DOMAIN body
    THEN {body.paymentRequired.accepts[i] : i \in DOMAIN body.paymentRequired.accepts}
  ELSE {}

\* C17 (as claimed): in every 402 body of every configured route,
\* maxAmountRequired is a string of decimal digits only (atomic units).
C17_MaxAmountRequiredIsIntegerString ==
  \A r \in DOMAIN req :
    (req[r].res.sent /\ req[r].res.status = 402) =>
      /\ RequirementsIn(req[r].res.body) # {}
      /\ \A a \in RequirementsIn(req[r].res.body) : IsDigits(a.maxAmountRequired)

\* The request was granted and real settlement was the mode chosen.
SettledOnChain(q) ==
  q.nextCalled /\ RealSettlementSelected(VerifierConfig(options))

\* C18: in simulated mode the settlement id is the hash of the payload and
\* of nothing else (the same header gets the same id at any time and on any
\* route); in real mode it is the transaction id of the receipt the chain
\* returned.
C18_SettlementIdByMode ==
  \A r \in DOMAIN req :
    LET q == req[r] IN
    q.nextCalled =>
      IF RealSettlementSelected(VerifierConfig(options))
        THEN /\ q.receipt # Null
             /\ q.attached.txHash = [receiptHash |-> q.receipt.hash]
        ELSE /\ q.receipt = Null
             /\ q.attached.txHash = [keccak256 |-> PaymentOf(q).payload]
             /\ \A url \in Urls, now \in Times :
                  LET other == Handle(Idle, url, q.header, now, options) IN
                  other.nextCalled => other.attached.txHash = q.attached.txHash

\* A payment was settled on chain and the receipt carried transaction 0xtx2.
C18_Witness ==
  \E r \in DOMAIN req :
    /\ SettledOnChain(req[r])
    /\ req[r].receipt = [hash |-> <<"0xtx2">>]
    /\ req[r].attached.txHash = [receiptHash |-> <<"0xtx2">>]

\* C20 (as claimed): the wait for confirmation is bounded, so a request whose
\* transaction was submitted is eventually answered even if the chain never
\* confirms it.
C20_ConfirmationWaitEnds ==
  \A r \in Slots : (req[r].pc = "confirming") ~> (req[r].pc = "done")

\* The authorizations signPaymentAuthorization returns to account `signer`
\* on the verifier's chain for the terms of the route, from and to being
\* supplied in any spelling.
SignedForRoute(signer) ==
  { signPaymentAuthorization(signer, options.chainId,
      [from |-> from, to |-> to, value |-> options.amount,
       network |-> options.network, asset |-> asset],
      Nonce1, 1, 2) :
      from \in {f \in FromSupplied : SameAddress(f, signer)},
      to \in {t \in ToSupplied : SameAddress(t, options.payTo)},
      asset \in CaseVariants(options.asset) }

\* C19: an authorization returned by signPaymentAuthorization with from the
\* signer's address, the route's payTo, amount, network and asset, and the
\* verifier's chain id, is accepted by verifyPayment at every now with
\* validAfter <= now <= validBefore, in whatever letter case the addresses
\* were supplied to the signer.
C19_SignerAndVerifierAgree ==
  \A r \in DOMAIN req :
    LET q == req[r] IN
    (q.pc # "idle" /\ IsDigits(options.amount)) =>
      \A signer \in {a \in Accounts : Decoded(q) /\ PaymentOf(q).payload.from = a} :
        \A p \in SignedForRoute(signer) :
          (q.header = encodePaymentHeader(p) /\ WindowOk(q)) =>
            /\ q.payment = p
            /\ Has(q.log, "checksPassed")
            /\ q.pc = "done" => Has(q.log, "settlePaymentThrew") \/ q.nextCalled

\* Alice's authorization, signed for from and to supplied in a mixed case
\* that is no checksum, was accepted at now = validAfter.
C19_Witness ==
  \E r \in DOMAIN req :
    LET q == req[r] IN
    /\ q.header = encodePaymentHeader(
         signPaymentAuthorization(AliceLower, options.chainId,
           [from |-> AliceBadCase, to |-> MerchantBadCase, value |-> options.amount,
            network |-> options.network, asset |-> options.asset],
           Nonce1, 1, 2))
    /\ q.now = 1
    /\ q.nextCalled

\* The request went through requirePayment with a decodable authorization
\* that meets the five conditions at the request's clock value, on a route
\* that settles in simulated mode.
ValidSimulated(q) ==
  /\ Verified(q) /\ q.url \in Urls
  /\ FiveConditions(q)
  /\ ~RealSettlementSelected(VerifierConfig(options))

\* C21: no consumed nonce is remembered: in simulated mode every request
\* presenting a valid authorization within its window is granted, whatever
\* other requests presented the same authorization before or at the same
\* time, and each is granted with the same settlement id.
C21_SameAuthorizationGrantedEveryTime ==
  \A r \in DOMAIN req :
    LET q == req[r] IN
    ValidSimulated(q) =>
      /\ q.nextCalled
      /\ q.attached.txHash = generateSimulatedTxHash(PaymentOf(q).payload)
      /\ \A s \in DOMAIN req :
           (ValidSimulated(req[s]) /\ PaymentOf(req[s]) = PaymentOf(q)) =>
             req[s].attached = q.attached

\* C21 witness: two requests presenting the same authorization at different
\* clock values are both granted, with the same settlement id, and the first
\* has already completed a job with it.
C21_Witness ==
  \E r, s \in DOMAIN req :
    /\ r # s
    /\ ValidSimulated(req[r]) /\ ValidSimulated(req[s])
    /\ PaymentOf(req[r]) = PaymentOf(req[s])
    /\ req[r].now # req[s].now
    /\ req[r].nextCalled /\ req[s].nextCalled
    /\ req[r].attached.txHash = req[s].attached.txHash
    /\ req[r].pc = "done" /\ req[r].res.status = 200
    /\ req[s].pc = "downstream"

\* The request q handled alone: the only request the server ever received,
\* arriving at the clock value q arrived at.
HandledAlone(q) ==
  Handle([Idle EXCEPT !.sender = q.sender, !.body = q.body],
         q.url, q.header, q.now, options)

\* What requirePayment decided for q: status and body of its own response
\* (none when it called next()), the reason, the settlement id and the
\* annotations, and whether next() was called.
MiddlewareOutcome(q) ==
  [nextCalled |-> q.nextCalled,
   verification |-> q.verification,
   attached |-> q.attached,
   res |-> IF q.nextCalled THEN NoResponse ELSE q.res]

\* The step takes a request into slot r and runs requirePayment on it.
MiddlewareStep(r) ==
  req[r].pc = "idle" /\ req'[r].pc # "idle" /\ req'[r].url \in Urls

Count(log, e) == Cardinality({i \in DOMAIN log : log[i] = e})

\* requirePayment is over for the request: it responded or called next().
MiddlewareOver(q) ==
  q.url \in Urls /\ q.pc \in {"done", "downstream", "computing"}

\* C23: on the granted path the middleware sets on the request exactly
\* payment = the decoded authorization, paymentVerified = true and txHash =
\* the settlement id verifyPayment returned, calls next() once and sends no
\* response itself; on every other path it sets none of the three fields.
C23_AnnotationsOnlyWhenGranted ==
  \A r \in DOMAIN req :
    LET q == req[r] IN
    MiddlewareOver(q) =>
      IF q.nextCalled
        THEN /\ q.attached = [set |-> TRUE,
                              payment |-> PaymentOf(q),
                              paymentVerified |-> TRUE,
                              txHash |-> q.verification.txHash]
             /\ q.verification.valid
             /\ Count(q.log, "next") = 1
             /\ Count(q.log, "respond") = 0
             /\ (q.pc = "downstream" => q.res = NoResponse)
        ELSE /\ q.attached = NotSet
             /\ q.res.sent /\ q.res.status \in {400, 402, 500}
             /\ Count(q.log, "next") = 0

\* C23 witness: a granted request with the three fields set, waiting for the
\* downstream handler, the settlement id being that of a confirmed receipt.
C23_Witness ==
  \E r \in DOMAIN req :
    /\ req[r].pc = "downstream"
    /\ req[r].attached.set
    /\ req[r].attached.payment = PaymentOf(req[r])
    /\ req[r].receipt # Null
    /\ req[r].attached.txHash = ReceiptHash(req[r].receipt)
    /\ req[r].res = NoResponse

\* The envelopes {x402Version, accepts} in a 402 body of the middleware.
EnvelopesIn(body) ==
  IF "accepts" \in DOMAIN body THEN {body}
  ELSE IF "x402" \in DOMAIN body THEN {body.x402}
  ELSE {}

\* C24: the envelope createPaymentRequirement returns is a function of the
\* route options and the request URL only: it is {x402Version: 1, accepts:
\* [r]} with one requirement r, scheme 'exact', and network, asset, payTo and
\* maxAmountRequired equal to the options' network, asset, payTo and amount;
\* the envelope in a response is the one a call at any other clock value,
\* with any other header, returns for the same URL.
C24_RequirementIsFunctionOfOptionsAndUrl ==
  \A r \in DOMAIN req :
    LET q == req[r] IN
    (MiddlewareOver(q) /\ q.res.sent /\ q.res.status = 402 /\ ~q.nextCalled) =>
      /\ EnvelopesIn(q.res.body) # {}
      /\ \A e \in EnvelopesIn(q.res.body) :
           /\ e.x402Version = 1
           /\ Len(e.accepts) = 1
           /\ e.accepts[1].scheme = <<"exact">>
           /\ e.accepts[1].network = options.network
           /\ e.accepts[1].asset = options.asset
           /\ e.accepts[1].payTo = options.payTo
           /\ e.accepts[1].maxAmountRequired = options.amount
           /\ e = createPaymentRequirement(q.url, options)
           /\ \A now \in Times :
                e \in EnvelopesIn(Handle(Idle, q.url, NoHeader, now, options).res.body)
           /\ \A url \in Urls \ {q.url} :
                e # createPaymentRequirement(url, options)

\* C24 witness: a rejection sent at a clock value other than 0 on a route whose
\* payTo is written in mixed case carries the envelope of the challenge a
\* request without header gets at clock value 0.
C24_Witness ==
  \E r \in DOMAIN req :
    LET q == req[r] IN
    /\ q.pc = "done" /\ q.now > 0
    /\ q.res.sent /\ q.res.status = 402
    /\ "x402" \in DOMAIN q.res.body
    /\ options.payTo = MerchantChecksum
    /\ q.res.body.x402 = Handle(Idle, q.url, NoHeader, 0, options).res.body
    /\ q.res.body.x402.accepts[1].payTo = MerchantChecksum

\* The step takes a request into slot r and runs POST /api/jobs/create on it.
CreateStep(r) ==
  req[r].pc = "idle" /\ req'[r].pc # "idle" /\ req'[r].url = UrlJobsCreate

\* What requirePayment enforces on /api/jobs/run: the terms verifyPayment
\* compares with and the asset it verifies the signature against.
EnforcedOnRun ==
  [network |-> VerificationOptions(options).expectedNetwork,
   asset |-> VerifierConfig(options).usdcAddress,
   payTo |-> VerificationOptions(options).expectedRecipient,
   maxAmountRequired |-> VerificationOptions(options).expectedAmount]

\* The terms of requirement x.
TermsOf(x) ==
  [network |-> x.network, asset |-> x.asset, payTo |-> x.payTo,
   maxAmountRequired |-> x.maxAmountRequired]

\* C25: POST /api/jobs/create with a valid prompt responds 402 with a jobId no
\* job had before, status 'pending_payment' and a requirement whose network,
\* asset, payTo and maxAmountRequired are those the /api/jobs/run middleware
\* enforces, and inserts exactly one job, in status pending_payment; with a
\* missing or non-string prompt it responds 400 and inserts nothing.
C25_CreateAnswers402AndInsertsOneJob ==
  [][\A r \in DOMAIN req :
       CreateStep(r) =>
         LET q == req'[r]
             prompt == q.body.prompt
         IN /\ (prompt = UndefStr \/ TypeOf(prompt) # "string") =>
                 /\ q.res.sent /\ q.res.status = 400
                 /\ jobs' = jobs
            /\ (prompt # UndefStr /\ prompt # <<>> /\ TypeOf(prompt) = "string") =>
                 /\ q.res.sent /\ q.res.status = 402
                 /\ q.res.body.status = "pending_payment"
                 /\ \A j \in jobs : j.id # q.res.body.jobId
                 /\ Len(q.res.body.paymentRequired.accepts) = 1
                 /\ TermsOf(q.res.body.paymentRequired.accepts[1]) = EnforcedOnRun
                 /\ TermsOf(q.res.body.paymentRequired.accepts[1])
                      = TermsOf(createPaymentRequirement(UrlJobsRun, options).accepts[1])
                 /\ \E j \in jobs' \ jobs :
                      /\ jobs' = jobs \cup {j}
                      /\ j.id = q.res.body.jobId
                      /\ j.status = "pending_payment"
                      /\ j.prompt = prompt
                 /\ Cardinality(jobs') = Cardinality(jobs) + 1]_vars

\* C25 witness: a create request with a valid prompt has been answered 402 and
\* its job is in the table, pending payment, next to an older job; another
\* create request, with a number for a prompt, has been answered 400.
C25_Witness ==
  \E r, s \in DOMAIN req :
    /\ req[r].url = UrlJobsCreate /\ req[r].pc = "done"
    /\ req[r].res.status = 402
    /\ \E j \in jobs : j.id = req[r].res.body.jobId /\ j.status = "pending_payment"
    /\ Cardinality(jobs) = 2
    /\ req[s].url = UrlJobsCreate /\ req[s].pc = "done"
    /\ req[s].body.prompt = NumberPrompt
    /\ req[s].res.status = 400

\* The request in slot r is one to POST /api/jobs/:id/replay.
IsReplay(q) == q.pc # "idle" /\ \E id \in JobIds : q.url = UrlJobReplay(id)

\* The step takes a request into slot r and runs the replay handler on it.
ReplayStep(r) == req[r].pc = "idle" /\ IsReplay(req'[r])

\* C26: POST /api/jobs/:id/replay reports verified = true exactly when the
\* output hash of the recomputation equals the outputHash stored in the
\* job's proof; it answers 404 for an unknown job and 400 for a job without
\* a proof, asks for no payment, and no step of it changes the jobs table.
C26_ReplayComparesOutputHashes ==
  /\ [](\A r \in DOMAIN req :
          LET q == req[r] IN
          (IsReplay(q) /\ q.pc = "done") =>
            /\ q.res.sent /\ q.res.status # 402
            /\ q.header = NoHeader /\ ~Has(q.log, "verifyPayment")
            /\ q.res.status = 200 =>
                 \A j \in JobWithId(ReplayId(q.url)) :
                   /\ q.res.body.originalOutputHash = j.proofJson.outputHash
                   /\ q.res.body.verified
                        <=> (q.res.body.recomputedOutputHash = j.proofJson.outputHash))
  /\ [][\A r \in DOMAIN req :
          /\ ReplayStep(r) =>
               LET q == req'[r]
                   found == JobWithId(ReplayId(q.url))
               IN /\ found = {} => (q.pc = "done" /\ q.res.status = 404)
                  /\ (found # {} /\ \A j \in found : j.proofJson = Null) =>
                       (q.pc = "done" /\ q.res.status = 400)
                  /\ (found # {} /\ \A j \in found : j.proofJson # Null) =>
                       q.pc = "replaying"
          /\ (IsReplay(req'[r]) /\ req'[r] # req[r]) => jobs' = jobs]_vars

\* C26 witness: for one completed job, a replay whose recomputation gave the
\* stored output hash reported verified = true and a replay whose
\* recomputation gave another hash reported verified = false.
C26_Witness ==
  \E r, s \in DOMAIN req :
    /\ IsReplay(req[r]) /\ IsReplay(req[s])
    /\ req[r].url = req[s].url
    /\ req[r].pc = "done" /\ req[r].res.status = 200
    /\ req[s].pc = "done" /\ req[s].res.status = 200
    /\ req[r].res.body.verified
    /\ req[r].res.body.recomputedOutputHash = Proof.outputHash
    /\ ~req[s].res.body.verified
    /\ req[s].res.body.recomputedOutputHash = OtherProof.outputHash

\* The terminal state the request is in, read off what the middleware did.
TerminalOf(q) ==
  IF q.nextCalled THEN "GRANTED"
  ELSE IF ~q.res.sent THEN "NONE"
  ELSE IF q.res.status = 400 THEN "REJECTED_MALFORMED"
  ELSE IF q.res.status = 500 THEN "SETTLEMENT_ERROR"
  ELSE IF q.res.status = 402 /\ "reason" \in DOMAIN q.res.body THEN "REJECTED_INVALID"
  ELSE IF q.res.status = 402 THEN "CHALLENGE_SENT"
  ELSE "NONE"

\* The terminal state the transitions NO_HEADER -> DECODING -> CHECKING ->
\* SETTLING lead the request to.
TerminalByTransitions(q) ==
  IF HeaderFalsy(q.header) THEN "CHALLENGE_SENT"
  ELSE IF PaymentOf(q) = Null THEN "REJECTED_MALFORMED"
  ELSE IF ~Has(q.log, "checksPassed") THEN "REJECTED_INVALID"
  ELSE IF Has(q.log, "settlePaymentThrew") THEN "SETTLEMENT_ERROR"
  ELSE "GRANTED"

\* C27 (as claimed): every request the middleware is done with is in exactly
\* one of the five terminal states, the one the transitions NO_HEADER ->
\* DECODING -> CHECKING -> SETTLING lead to (a failure in SETTLING ends in
\* SETTLEMENT_ERROR, 500), and exactly one of "the middleware sent a
\* response" and "next() was called" happened.
C27_TerminalStateFollowsTransitions ==
  \A r \in DOMAIN req :
    LET q == req[r] IN
    MiddlewareOver(q) =>
      /\ TerminalOf(q) = TerminalByTransitions(q)
      /\ Count(q.log, "respond") + Count(q.log, "next") = 1

\* The window the caller asked for: what was supplied, the default otherwise.
WindowAsked(opts, now) ==
  [validAfter |-> IF "validAfter" \in DOMAIN opts
                    THEN opts.validAfter ELSE now - ValidAfterSkew,
   validBefore |-> IF "validBefore" \in DOMAIN opts
                     THEN opts.validBefore ELSE now + ValidBeforeTtl]

\* C28 (as claimed): the envelope signPaymentAuthorization returns has
\* x402Version 1, scheme 'exact', the given network and the nonce drawn for
\* the call; its window is [now - 60, now + 3600] when validAfter and
\* validBefore are not supplied and exactly the supplied values when they
\* are, a supplied 0 included; and the window signed is the window in the
\* envelope.
C28_WindowIsDefaultOrAsSupplied ==
  \A r \in DOMAIN req :
    \A o \in PaymentAuthOptions, now \in Times :
      LET p == signPaymentAuthorizationAt(AliceLower, BaseSepoliaChainId, o, Nonce1, now) IN
      (req[r].pc # "idle" /\ req[r].header = encodePaymentHeader(p)) =>
        /\ p.x402Version = 1
        /\ p.scheme = <<"exact">>
        /\ p.network = o.network
        /\ p.payload.nonce = Nonce1
        /\ p.payload.validAfter = WindowAsked(o, now).validAfter
        /\ p.payload.validBefore = WindowAsked(o, now).validBefore
        /\ p.payload.vrs.digest =
             TypedDataDigest(BaseSepoliaChainId, toLowerCase(o.asset), MessageOf(p.payload))

\* A non-empty merchantPrivateKey is configured for the route.
KeyConfigured == options.merchantPrivateKey # UndefStr /\ options.merchantPrivateKey # <<>>

\* C29: real settlement is performed if and only if the route sets
\* enableRealSettlement and a non-empty merchantPrivateKey is configured; with
\* enableRealSettlement set and the key missing or empty, verifyPayment does
\* not fail: it takes the simulated path and returns valid = true with the
\* derived hash, so the request is granted and no transfer is submitted.
C29_RealSettlementNeedsFlagAndKey ==
  \A r \in DOMAIN req :
    LET q == req[r] IN
    (Verified(q) /\ Has(q.log, "checksPassed")) =>
      /\ Has(q.log, "settlePayment") <=> (options.enableRealSettlement /\ KeyConfigured)
      /\ Has(q.log, "generateSimulatedTxHash") <=> ~(options.enableRealSettlement /\ KeyConfigured)
      /\ (options.enableRealSettlement /\ ~KeyConfigured) =>
           /\ q.verification = [valid |-> TRUE,
                                txHash |-> generateSimulatedTxHash(PaymentOf(q).payload)]
           /\ q.nextCalled
           /\ q.attached.txHash = generateSimulatedTxHash(PaymentOf(q).payload)
           /\ q.receipt = Null

\* C29 witness: on a route with enableRealSettlement set and an empty key, a
\* request passed the checks and was granted with the derived hash.
C29_Witness ==
  \E r \in DOMAIN req :
    /\ options.enableRealSettlement /\ options.merchantPrivateKey = <<>>
    /\ Has(req[r].log, "checksPassed")
    /\ ~Has(req[r].log, "settlePayment")
    /\ req[r].nextCalled
    /\ req[r].attached.txHash = generateSimulatedTxHash(PaymentOf(req[r]).payload)

\* The request in slot r is a POST /api/jobs/run for job id that was
\* answered 200.
CompletedBy(r, id) ==
  /\ req[r].url = UrlJobsRun /\ req[r].body.jobId = id
  /\ req[r].pc = "done" /\ req[r].res.sent /\ req[r].res.status = 200

\* C30 (as claimed): for any job and any /api/jobs/run requests carrying
\* valid payments, concurrent ones included, the job is computed and moved to
\* 'completed' by one request at most; every other request for it is
\* answered 400 'Job already completed', and the txHash stored with the job
\* stays that of the request that completed it.
C30_JobCompletedAtMostOnce ==
  \A id \in JobIds :
    /\ \A r, s \in DOMAIN req :
         (CompletedBy(r, id) /\ CompletedBy(s, id)) => r = s
    /\ \A r \in DOMAIN req, j \in JobWithId(id) :
         CompletedBy(r, id) => j.txHash = req[r].res.body.txHash

\* C31: over any sequence of create, run and replay requests, a job's status
\* only ever changes from 'pending_payment' to 'completed' (no row is
\* removed, 'failed' is never written); a completed job has a txHash, an
\* imageDigest and a proofJson, and a job pending payment has none of them.
C31_JobRecordInvariant ==
  /\ [](\A j \in jobs :
          /\ j.status \in {"pending_payment", "completed"}
          /\ j.status = "completed" =>
               (j.txHash # Null /\ j.imageDigest # NullStr /\ j.proofJson # Null)
          /\ j.status = "pending_payment" =>
               (j.txHash = Null /\ j.imageDigest = NullStr /\ j.proofJson = Null))
  /\ [][\A j \in jobs :
          \E k \in jobs' :
            /\ k.id = j.id
            /\ k.status # j.status =>
                 (j.status = "pending_payment" /\ k.status = "completed")]_vars

\* C31 witness: the table holds a completed job with txHash, imageDigest and
\* proofJson next to a job pending payment with none of them.
C31_Witness ==
  \E j, k \in jobs :
    /\ j.status = "completed"
    /\ j.txHash # Null /\ j.imageDigest = Proof.containerImageDigest /\ j.proofJson = Proof
    /\ k.status = "pending_payment"
    /\ k.txHash = Null /\ k.imageDigest = NullStr /\ k.proofJson = Null

\* The /api/jobs/run request was refused by one of the job checks.
RefusedByJobChecks(q) ==
  /\ q.url = UrlJobsRun /\ q.pc = "done" /\ q.res.sent
  /\ q.res \in {Json(400, [error |-> "jobId required"]),
                Json(404, [error |-> "Job not found"]),
                Json(400, [error |-> "Job already completed"])}

\* The authorization of the request was settled: a receipt was returned for
\* the transfer (real mode), or the derived id was issued (simulated mode).
Settled(q) ==
  /\ q.verification # Undefined /\ q.verification.valid
  /\ IF RealSettlementSelected(VerifierConfig(options))
       THEN /\ Has(q.log, "settlePaymentReturned")
            /\ q.receipt # Null
            /\ q.attached.txHash = ReceiptHash(q.receipt)
       ELSE /\ Has(q.log, "generateSimulatedTxHash")
            /\ q.attached.txHash = generateSimulatedTxHash(PaymentOf(q).payload)

\* C32: a /api/jobs/run request refused because jobId is missing (400), the
\* job is unknown (404) or the job is already completed (400) went through
\* the payment middleware first: its authorization was verified and settled
\* before next(), and nothing was done after next() to undo the settlement.
C32_JobChecksRunAfterSettlement ==
  \A r \in DOMAIN req :
    LET q == req[r] IN
    RefusedByJobChecks(q) =>
      /\ q.nextCalled
      /\ FiveConditions(q)
      /\ Settled(q)
      /\ Before(q.log, "checksPassed", "next")
      /\ q.log[Len(q.log)] = "next"

\* C32 witness: with real settlement, a request for a job that is already
\* completed was refused 400 after a receipt was returned for its transfer.
C32_Witness ==
  \E r \in DOMAIN req :
    /\ RefusedByJobChecks(req[r])
    /\ req[r].res.body.error = "Job already completed"
    /\ req[r].receipt # Null
    /\ req[r].attached.txHash = ReceiptHash(req[r].receipt)

\* The step is the /api/jobs/run handler in slot r answering after a failed
\* call of the compute app.
ComputeFailedStep(r) ==
  /\ req[r].pc = "computing" /\ req[r].url = UrlJobsRun
  /\ req'[r].pc = "done" /\ req'[r].res.status # 200

\* C33: when the compute call of /api/jobs/run fails after the payment was
\* granted, the handler answers 500 and leaves the jobs table as it is; and a
\* job that is still pending payment (with no txHash and no proof) is computed
\* for the next granted request, whatever failed before.
C33_ComputeFailureLeavesJobPending ==
  /\ [][\A r \in DOMAIN req :
          ComputeFailedStep(r) =>
            /\ req[r].nextCalled
            /\ req'[r].res = Json(500, [error |-> "Failed to run job",
                                        message |-> "Compute app error"])
            /\ jobs' = jobs]_vars
  /\ [](\A r \in DOMAIN req :
          LET q == req[r] IN
          (q.pc = "downstream" /\ q.url = UrlJobsRun) =>
            \A j \in JobWithId(q.body.jobId) :
              j.status = "pending_payment" =>
                /\ j.txHash = Null /\ j.proofJson = Null
                /\ RunJobRefusal(q) = NoResponse)

\* C33 witness: one request for a job was answered 500 by the handler, and
\* another request for the same job completed it.
C33_Witness ==
  \E r, s \in DOMAIN req, j \in jobs :
    /\ req[r].url = UrlJobsRun /\ req[s].url = UrlJobsRun
    /\ req[r].body.jobId = j.id /\ req[s].body.jobId = j.id
    /\ req[r].pc = "done" /\ req[r].nextCalled /\ req[r].res.status = 500
    /\ req[s].pc = "done" /\ req[s].res.status = 200
    /\ j.status = "completed"
    /\ j.txHash = req[s].res.body.txHash

\* The bodies a request can carry: a prompt, a job id, neither.
Bodies ==
  {DefaultBody, Body(UndefStr, UndefStr)} \cup {Body(UndefStr, id) : id \in JobIds}

\* C34: what verifyPayment returns for an authorization, and in simulated
\* mode the settlement id, depend on the authorization, the route's terms
\* and the clock only: the same header at the same clock value gets the same
\* verdict, reason, settlement id and annotations on every gated URL, with
\* every body and every job id.
C34_VerdictIgnoresUrlAndBody ==
  \A r \in DOMAIN req :
    LET q == req[r] IN
    (Verified(q) /\ q.url \in Urls) =>
      \A url \in Urls, body \in Bodies :
        LET h == Handle([Idle EXCEPT !.body = body], url, q.header, q.now, options) IN
        IF h.pc = "submitting"
          THEN Has(q.log, "settlePayment")
          ELSE /\ ~Has(q.log, "settlePayment")
               /\ h.verification = q.verification
               /\ h.nextCalled = q.nextCalled
               /\ h.attached = q.attached

\* C34 witness: a request granted on /api/jobs/run in simulated mode; the
\* same header is granted on /api/generate-text, for a prompt instead of a
\* job, with the same settlement id.
C34_Witness ==
  \E r \in DOMAIN req :
    LET q == req[r]
        h == Handle([Idle EXCEPT !.body = DefaultBody], UrlGenerateText,
                    q.header, q.now, options)
    IN /\ q.url = UrlJobsRun /\ q.nextCalled
       /\ Has(q.log, "generateSimulatedTxHash")
       /\ h.nextCalled
       /\ h.attached.txHash = q.attached.txHash

\* The step is makeX402Request receiving the response in slot r to its
\* first fetch.
InitialResponseStep(r) ==
  /\ client.method = "makeX402Request" /\ client.pc = "awaitInitial"
  /\ client'.pc # "awaitInitial"
  /\ req[r].pc = "done" /\ req[r].sender = "client"

\* The step is makeX402Request receiving the response to its paid fetch.
PaidResponseStep ==
  /\ client.method = "makeX402Request" /\ client.pc = "awaitPaid"
  /\ client'.pc # "awaitPaid"

\* What C35 says of every response but a 402: an OK response is returned and
\* another error is thrown, without signing or sending again; a call without
\* signer sends nothing; a failed paid request is not retried.
CallCounts ==
  /\ [](client.method = "makeX402Request" =>
          /\ client.sent <= 2 /\ client.signed <= 1
          /\ (client.error = "Signer required for payment. Call setSigner() first."
                => (client.sent = 0 /\ client.signed = 0))
          /\ (client.pc = "awaitPaid" => (client.sent = 2 /\ client.signed = 1)))
  /\ [][/\ \A r \in DOMAIN req :
            (InitialResponseStep(r) /\ req[r].res.status # 402) =>
              /\ client'.sent = 1 /\ client'.signed = 0
              /\ client'.pc = IF Ok(req[r].res) THEN "returned" ELSE "threw"
              /\ (Ok(req[r].res) => client'.result = req[r].res.body)
        /\ PaidResponseStep =>
             /\ client'.sent = 2 /\ client'.signed = 1
             /\ client'.pc \in {"returned", "threw"}
             /\ client'.fetch = NoFetch]_vars

C36_EmptyHeaderIsChallenged ==
  \A r \in DOMAIN req :
    LET q == req[r]
        bare == Handle([Idle EXCEPT !.sender = q.sender, !.body = q.body],
                       q.url, NoHeader, q.now, options)
    IN (q.pc # "idle" /\ q.header = RawHeader(<<>>)) =>
         /\ q.pc = "done"
         /\ q.res = bare.res
         /\ q.res = Json(402, createPaymentRequirement(q.url, options))
         /\ q.res # MalformedResponse
         /\ q.log = bare.log
         /\ ~Has(q.log, "parsePaymentHeader")
         /\ ~q.nextCalled /\ q.attached = NotSet

\* C36 witness: a request with an empty X-PAYMENT header has been answered
\* with the 402 challenge.
C36_Witness ==
  \E r \in DOMAIN req :
    /\ req[r].header = RawHeader(<<>>)
    /\ req[r].pc = "done"
    /\ req[r].res.status = 402
    /\ "accepts" \in DOMAIN req[r].res.body

\* ------------------------------------------------------------------------
\* The eigenx402-button custom element (class EigenX402Button).  Its state is
\* held in the variable client: the fields of the element, the pay-button
\* elements render() has created (the last one is the one in the shadow
\* root), what the element dispatched and the calls of makeX402Request.
\* ------------------------------------------------------------------------

\* How often the element is inserted into a document.
MaxRenders == 2

\* How many clicks the pay button receives.
MaxClicks == 4

\* <button id="pay-button"> as render() writes it: enabled, showing the label
\* and the price; pc is the position of the handleClick call that holds it.
PayButton == [disabled |-> FALSE, face |-> "label", pc |-> "idle"]

\* The element after construction: no wallet, no client, not paid, and an
\* empty shadow root.
EigenX402Button ==
  [connected |-> FALSE,
   buttons |-> <<>>,
   signer |-> FALSE,       \* this.signer is set
   client |-> FALSE,       \* this.client is set
   isPaid |-> FALSE,
   events |-> <<>>,        \* the CustomEvents dispatched, in order
   sent |-> 0,             \* calls of client.makeX402Request
   succeeded |-> 0,        \* calls of makeX402Request that resolved
   clicks |-> 0]

\* render(): the shadow root's content is replaced, so getElementById finds
\* a new, enabled pay button with its own click listener.
render(el) == [el EXCEPT !.buttons = Append(@, PayButton)]

\* The catch block of handleClick, for the button b the call holds.
handleClickCatch(el, b) ==
  [el EXCEPT !.buttons[b] = PayButton,
             !.events = Append(@, "payment-error")]

\* handleClick up to its first await, on the button in the shadow root.
handleClick(el) ==
  LET b == Len(el.buttons)
  IN IF el.isPaid THEN el
     ELSE IF ~el.signer
       THEN [el EXCEPT !.buttons[b] =
               [disabled |-> TRUE, face |-> "label", pc |-> "connectWallet"]]
     ELSE IF ~el.client
       THEN handleClickCatch(el, b)      \* 'Client not initialized'
     ELSE [el EXCEPT !.buttons[b] =
             [disabled |-> TRUE, face |-> "processing",
              pc |-> "executePaidRequest"],
           !.sent = @ + 1]

\* The browser inserts the element into a document: connectedCallback.
connectedCallback ==
  /\ ~client.connected
  /\ Len(client.buttons) < MaxRenders
  /\ client' = render([client EXCEPT !.connected = TRUE])
  /\ UNCHANGED <<options, req, jobs>>

\* The page takes the element out of the document (the class has no
\* disconnectedCallback, and calls in flight go on).
RemoveElement ==
  /\ client.connected
  /\ client' = [client EXCEPT !.connected = FALSE]
  /\ UNCHANGED <<options, req, jobs>>

\* A click on the pay button of a connected element; a disabled button
\* receives no click.
Click ==
  /\ client.connected
  /\ client.clicks < MaxClicks
  /\ ~client.buttons[Len(client.buttons)].disabled
  /\ client' = handleClick([client EXCEPT !.clicks = @ + 1])
  /\ UNCHANGED <<options, req, jobs>>

\* connectWallet throws: no wallet installed, or the user refuses.
ConnectWalletThrows(b) ==
  /\ b \in DOMAIN client.buttons
  /\ client.buttons[b].pc = "connectWallet"
  /\ client' = handleClickCatch(client, b)
  /\ UNCHANGED <<options, req, jobs>>

\* connectWallet: this.signer = await this.provider.getSigner().
ConnectWalletSigner(b) ==
  /\ b \in DOMAIN client.buttons
  /\ client.buttons[b].pc = "connectWallet"
  /\ client' = [client EXCEPT !.signer = TRUE,
                              !.buttons[b].pc = "getAddress"]
  /\ UNCHANGED <<options, req, jobs>>

\* connectWallet: the address arrives and the client is made; handleClick
\* re-enables its button and returns.
ConnectWalletClient(b) ==
  /\ b \in DOMAIN client.buttons
  /\ client.buttons[b].pc = "getAddress"
  /\ client' = [client EXCEPT !.client = TRUE,
                              !.buttons[b].disabled = FALSE,
                              !.buttons[b].pc = "idle"]
  /\ UNCHANGED <<options, req, jobs>>

\* makeX402Request resolves: the success branch of handleClick.
PaidRequestResolves(b) ==
  /\ b \in DOMAIN client.buttons
  /\ client.buttons[b].pc = "executePaidRequest"
  /\ client' = [client EXCEPT !.isPaid = TRUE,
                              !.succeeded = @ + 1,
                              !.buttons[b].face = "success",
                              !.buttons[b].pc = "idle",
                              !.events = Append(@, "payment-success")]
  /\ UNCHANGED <<options, req, jobs>>

\* makeX402Request throws: the catch block of handleClick.
PaidRequestRejects(b) ==
  /\ b \in DOMAIN client.buttons
  /\ client.buttons[b].pc = "executePaidRequest"
  /\ client' = handleClickCatch(client, b)
  /\ UNCHANGED <<options, req, jobs>>

InitButton ==
  /\ options \in {o \in JobsRouteOptions : ~o.enableRealSettlement}
  /\ req = [r \in Slots |-> Idle]
  /\ jobs = {}
  /\ client = EigenX402Button

NextButton ==
  \/ connectedCallback
  \/ RemoveElement
  \/ Click
  \/ \E b \in 1..MaxRenders :
       \/ ConnectWalletThrows(b)
       \/ ConnectWalletSigner(b)
       \/ ConnectWalletClient(b)
       \/ PaidRequestResolves(b)
       \/ PaidRequestRejects(b)

SpecButton == InitButton /\ [][NextButton]_vars

\* A click has been handled in this step.
ClickStep == client'.clicks = client.clicks + 1

\* A call of makeX402Request has failed in this step.
PaidRequestFailed(b) ==
  /\ b <= Len(client.buttons)
  /\ client.buttons[b].pc = "executePaidRequest"
  /\ client'.buttons[b].pc = "idle"
  /\ client'.succeeded = client.succeeded

\* C37: the eigenx402-button element makes at most one successful paid
\* request in its lifetime and dispatches 'payment-success' at most once; a
\* click without a wallet sends no paid request; once isPaid is true every
\* click is ignored; a failed paid request re-enables the button and
\* dispatches 'payment-error'.
C37_ButtonPaysAtMostOnce ==
  /\ [](/\ client.succeeded <= 1
        /\ Count(client.events, "payment-success") <= 1
        /\ client.isPaid = (client.succeeded > 0))
  /\ [][/\ (ClickStep /\ ~client.signer) => client'.sent = client.sent
        /\ (ClickStep /\ client.isPaid) =>
             client' = [client EXCEPT !.clicks = @ + 1]
        /\ client.isPaid => client'.isPaid
        /\ \A b \in 1..MaxRenders :
             PaidRequestFailed(b) =>
               /\ ~client'.buttons[b].disabled
               /\ client'.events = Append(client.events, "payment-error")
       ]_vars

====
